---- MODULE Spec2Model ----
(***************************************************************************)
(* Model of the caching and snapshot engine of the Clash Royale deck       *)
(* tracker API (cr-decktracker-api).                                       *)
(*                                                                         *)
(*   Part I   snapshot store: services/clan_service.py create_clan_snapshot*)
(*            over the clan_member_snapshots table (models/clan.py).       *)
(*   Part II  upstream gateway: services/supercell_api.py                  *)
(*            SupercellAPIService.get over the Redis cache.                *)
(*   Part III rate limiter: utils/rate_limiting.py over Redis counters.    *)
(*   Part IV  inbound routes: routes/player.py, routes/clan.py.            *)
(*   Part V   historical deltas: clan_service.py get_historical_stats.     *)
(*   Part VI  player service: services/player_service.py, utils/helpers.py.*)
(*   Part VII clan tracking: routes/clan.py start_tracking_clan.           *)
(*   Part VIII clan statistics: routes/clan.py get_clan_stats.             *)
(*                                                                         *)
(* Each part has its own next-state relations; the variables of the other  *)
(* parts stay unchanged.                                                   *)
(***************************************************************************)
EXTENDS Integers, Sequences, FiniteSets, TLC

VARIABLES
    day,        \* current UTC calendar day (datetime.utcnow().date())
    snapshots,  \* committed rows of table clan_member_snapshots, in insert order
    call,       \* call[c]: the state of invocation c of create_clan_snapshot
    cache,      \* Redis: key -> [value, ttl], the keys present and their time to live
    written,    \* history: key -> the request and payload last stored, and its age
    gw,         \* gw[c]: the state of caller c inside SupercellAPIService.get
    counters,   \* Redis: rate limit key -> [value, ttl]
    arrivals,   \* history: rate limit key -> checks decided since the key was created
    admitted,   \* history: rate limit key -> checks admitted since the key was created
    rl,         \* rl[c]: the state of caller c inside a rate limit check
    inbound,    \* inbound[c]: the state of inbound request c inside its route handler
    hist,       \* the last get_historical_stats call and what it returned
    player,     \* the player service call in progress and what it returned
    battle_logs, \* rows of table battle_logs, keyed by player_tag, and their age
    tracked_clans, \* committed rows of table tracked_clans, in insert order
    track,      \* track[c]: the state of request c inside start_tracking_clan
    stats       \* the get_clan_stats request in progress and what it returned

svars == <<day, snapshots, call>>
gvars == <<cache, written, gw>>
lvars == <<counters, arrivals, admitted, rl>>
rvars == <<inbound>>
hvars == <<hist>>
pvars == <<player, battle_logs>>
tvars == <<tracked_clans, track>>
cvars == <<stats>>
vars ==
    <<day, snapshots, call, cache, written, gw, counters, arrivals, admitted, rl, inbound, hist,
      player, battle_logs, tracked_clans, track, stats>>

\* what a step of one part leaves alone
besidesSnapshot == <<gvars, lvars, rvars, hvars, pvars, tvars, cvars>>
besidesGateway == <<svars, lvars, rvars, hvars, pvars, tvars, cvars>>
besidesLimiter == <<svars, gvars, rvars, hvars, pvars, tvars, cvars>>
besidesPlayer == <<svars, gvars, lvars, rvars, hvars, tvars, cvars>>
besidesTracking == <<gvars, lvars, rvars, hvars, pvars, cvars>>
besidesStats == <<svars, lvars, rvars, hvars, pvars, tvars>>

(***************************************************************************)
(* Bounds                                                                  *)
(***************************************************************************)
MaxCalls == 2
MaxDay == 2
MaxCallers == 2
TickStep == 150
MaxOver == 1
MaxSnapshotDays == 3
MaxClansReturned == 11
MaxBattles == 4

Calls == 1..MaxCalls
Days == 1..MaxDay
Callers == 1..MaxCallers

(***************************************************************************)
(* Python dict helpers                                                     *)
(***************************************************************************)
\* d.get(k, default)
Get(d, k, default) == IF k \in DOMAIN d THEN d[k] ELSE default

RECURSIVE SumSeq(_)
SumSeq(s) == IF Len(s) = 0 THEN 0 ELSE Head(s) + SumSeq(Tail(s))

RECURSIVE Flatten(_)
Flatten(ss) == IF Len(ss) = 0 THEN <<>> ELSE Head(ss) \o Flatten(Tail(ss))

Min(a, b) == IF a < b THEN a ELSE b

(***************************************************************************)
(* PART I - snapshot store                                                 *)
(*                                                                         *)
(* Upstream payloads that api_service.get may return to                    *)
(* create_clan_snapshot.  A dict is a record; a missing key is a missing   *)
(* field.                                                                  *)
(***************************************************************************)
ClanTags == {"#C1", "#C2"}
OtherClanTag == "#CX"

mAnn == [tag |-> "#P1", name |-> "Ann", donations |-> 5, donationsReceived |-> 2]
mBob == [tag |-> "#P2", name |-> "Bob"]
mNoTag == [name |-> "Cy"]
mNoName == [tag |-> "#P3"]

\* GET /clans/{tag}/members
MembersPayloads ==
    { [items |-> <<>>],
      [items |-> <<mAnn>>],
      [items |-> <<mAnn, mBob>>],
      [items |-> <<mAnn, mNoTag>>],
      [items |-> <<mBob, mNoName>>],
      [reason |-> "empty"] }

Participant(tag, fame, decks) == [tag |-> tag, fame |-> fame, decksUsed |-> decks]
Standing(clanTag, parts) == [clan |-> [tag |-> clanTag, participants |-> parts]]
Race(standings) == [standings |-> standings]

\* GET /clans/{tag}/riverracelog
RiverRacePayloads == [clanTag \in ClanTags |->
    { [items |-> <<>>],
      [reason |-> "empty"],
      [items |-> << Race(<< Standing(clanTag, << Participant("#P1", 100, 3), [tag |-> "#P2"] >>),
                             Standing(OtherClanTag, << Participant("#P1", 900, 4) >>) >>),
                    [seasonId |-> 1] >>],
      [items |-> [k \in 1..6 |-> Race(<< Standing(clanTag, << Participant("#P1", 10, 1) >>) >>)]],
      [items |-> << Race(<< Standing(clanTag, << Participant("#P1", 7, 2), Participant("#P1", 7, 2) >>),
                             Standing(clanTag, << Participant("#P2", 1, 1) >>) >>) >>] }]

Battle(type, teamCrowns, opponentCrowns) ==
    [type |-> type, team |-> << [crowns |-> teamCrowns] >>,
     opponent |-> << [crowns |-> opponentCrowns] >>]

\* GET /players/{tag}/battlelog: a JSON list, or a dict holding "items"
BattleLogPayloads ==
    { [list |-> <<>>],
      [list |-> << Battle("ladder", 3, 1), Battle("pathOfLegend", 0, 2),
                   Battle("challenge", 1, 1), Battle("2v2", 3, 0),
                   [type |-> "ladder"] >>],
      [dict |-> [items |-> << Battle("tournament", 2, 0),
                             [type |-> "ladder", team |-> << [crowns |-> 1] >>] >>]] }

\* The outcome of one await api_service.get(...): a payload, or HTTPException raised
ApiOutcomes(payloads) == { [ok |-> TRUE, data |-> p] : p \in payloads } \cup { [ok |-> FALSE] }

\* the outcomes of the fetch named what, against an upstream that holds payloads
\* and fails the fetches named in upstream.raises
FetchOutcomes(upstream, what, payloads) ==
    {outcome \in ApiOutcomes(payloads) : outcome.ok \/ what \in upstream.raises}

(***************************************************************************)
(* utils/helpers.py calculate_wins_losses                                  *)
(***************************************************************************)
PvPTypes == {"pathOfLegend", "ladder", "challenge", "tournament"}

BattleOutcome(battle) ==
    IF "team" \notin DOMAIN battle \/ Len(battle.team) = 0 THEN "skip"
    ELSE IF Get(battle, "type", "") \notin PvPTypes THEN "skip"
    ELSE LET team == battle.team[1]
             opp == Get(battle, "opponent", <<>>)
             team_crowns == Get(team, "crowns", 0)
             opponent_crowns == IF Len(opp) = 0 THEN 0 ELSE Get(opp[1], "crowns", 0)
         IN  IF team_crowns > opponent_crowns THEN "win"
             ELSE IF opponent_crowns > team_crowns THEN "loss"
             ELSE "draw"

calculate_wins_losses(battles) ==
    [wins   |-> Cardinality({k \in 1..Len(battles) : BattleOutcome(battles[k]) = "win"}),
     losses |-> Cardinality({k \in 1..Len(battles) : BattleOutcome(battles[k]) = "loss"})]

(***************************************************************************)
(* create_clan_snapshot: war statistics of one member (lines 56-70)        *)
(***************************************************************************)
StandingClanTag(standing) == Get(Get(standing, "clan", <<>>), "tag", "None")

RaceParticipants(race, clan_tag) ==
    IF "standings" \notin DOMAIN race THEN <<>>
    ELSE Flatten([k \in 1..Len(race.standings) |->
            IF StandingClanTag(race.standings[k]) = clan_tag
            THEN Get(Get(race.standings[k], "clan", <<>>), "participants", <<>>)
            ELSE <<>>])

\* river_race[:5]
LastRaces(river_race) == SubSeq(river_race, 1, Min(Len(river_race), 5))

\* every participant entry, over the last 5 races, that carries member_tag
MemberEntries(river_race, clan_tag, member_tag) ==
    LET races == LastRaces(river_race)
        all == Flatten([k \in 1..Len(races) |-> RaceParticipants(races[k], clan_tag)])
        IsMember(p) == Get(p, "tag", "None") = member_tag
    IN  SelectSeq(all, IsMember)

WarStats(river_race, clan_tag, member_tag) ==
    LET es == MemberEntries(river_race, clan_tag, member_tag)
    IN  [medals            |-> SumSeq([k \in 1..Len(es) |-> Get(es[k], "fame", 0)]),
         war_attacks       |-> SumSeq([k \in 1..Len(es) |-> Get(es[k], "decksUsed", 0)]),
         total_war_attacks |-> 4 * Len(es)]

\* lines 72-81: battle count and wins/losses from the battle log fetch
BattleStats(outcome) ==
    IF ~outcome.ok THEN [battles |-> 0, wins |-> 0, losses |-> 0]
    ELSE LET battles == IF "list" \in DOMAIN outcome.data
                        THEN outcome.data.list
                        ELSE Get(outcome.data.dict, "items", <<>>)
             wl == calculate_wins_losses(battles)
         IN  [battles |-> Len(battles), wins |-> wl.wins, losses |-> wl.losses]

\* lines 84-97: the ClanMemberSnapshot row; by is history (the call that built it)
SnapshotRow(c, cr, member, outcome) ==
    LET war == WarStats(cr.river_race, cr.clan_tag, member.tag)
        bs == BattleStats(outcome)
    IN  [clan_tag |-> cr.clan_tag, player_tag |-> member.tag, player_name |-> member.name,
         donations_given |-> Get(member, "donations", 0),
         donations_received |-> Get(member, "donationsReceived", 0),
         war_attacks |-> war.war_attacks, total_war_attacks |-> war.total_war_attacks,
         medals |-> war.medals, battles |-> bs.battles, wins |-> bs.wins,
         losses |-> bs.losses, snapshot_date |-> cr.today, by |-> c]

(***************************************************************************)
(* The SQLAlchemy session of one request: pending rows are inserted and    *)
(* made visible to other sessions at commit, discarded at rollback.        *)
(***************************************************************************)
SessionAdd(pending, row) == Append(pending, row)

\* a commit that replaces the rows of the clans and dates it writes
SessionCommitReplacing(table, pending) ==
    LET Written(row) == \E k \in 1..Len(pending) :
                            /\ pending[k].clan_tag = row.clan_tag
                            /\ pending[k].snapshot_date = row.snapshot_date
    IN  SelectSeq(table, LAMBDA row : ~Written(row)) \o pending

SessionCommit(table, pending) == table \o pending
SessionRollback(pending) == <<>>

\* the same query filtering on the wrong column
ExistingSnapshotWrongColumn(table, clan_tag, today) ==
    \E k \in 1..Len(table) : table[k].player_tag = clan_tag /\ table[k].snapshot_date = today

\* line 32-35: db.query(ClanMemberSnapshot).filter_by(clan_tag, snapshot_date).first()
ExistingSnapshot(table, clan_tag, today) ==
    \E k \in 1..Len(table) : table[k].clan_tag = clan_tag /\ table[k].snapshot_date = today

IdleCall ==
    [pc |-> "idle", clan_tag |-> "None", today |-> 0, members |-> <<>>,
     river_race |-> <<>>, i |-> 0, pending |-> <<>>, result |-> "none",
     failed |-> FALSE, added |-> 0,
     river_failed |-> FALSE, battle_failed |-> {}, cause |-> "none"]

\* a handler that flushes the session instead of discarding it
ExceptHandlerCommits(table, cr) ==
    [table |-> SessionCommit(table, cr.pending),
     call  |-> [cr EXCEPT !.pending = <<>>, !.result = "false",
                          !.pc = "done", !.failed = TRUE, !.members = <<>>,
                          !.river_race = <<>>, !.i = 0]]

\* lines 104-107: except Exception: db.rollback(); return False.
\* failed and added are history: the call took this path; db.add calls made.
\* So are river_failed, battle_failed and cause: the war log fetch raised, the
\* members (by position) whose battle log fetch raised, what raised into here.
ExceptHandler(table, cr) ==
    [table |-> table,
     call  |-> [cr EXCEPT !.pending = SessionRollback(@), !.result = "false",
                          !.pc = "done", !.failed = TRUE, !.members = <<>>,
                          !.river_race = <<>>, !.i = 0]]

\* lines 100-102: db.commit(); return True.  commitOk = FALSE: the store rejects
\* the transaction, commit raises and nothing of it is applied.
Commit(table, cr, commitOk) ==
    IF commitOk
    THEN [table |-> SessionCommit(table, cr.pending),
          call  |-> [cr EXCEPT !.pending = <<>>, !.result = "true", !.pc = "done",
                               !.river_race = <<>>, !.i = 0]]
    ELSE ExceptHandler(table, [cr EXCEPT !.cause = "commit"])

\* line 53-54 for member number i, up to the await of line 74; past the last
\* member, the commit of line 100
LoopHead(table, cr, i, commitOk) ==
    IF i > Len(cr.members) THEN Commit(table, cr, commitOk)
    ELSE IF "tag" \notin DOMAIN cr.members[i]
         THEN ExceptHandler(table, [cr EXCEPT !.cause = "no_tag"])
    ELSE [table |-> table, call |-> [cr EXCEPT !.i = i, !.pc = "fetch_battlelog"]]

\* a loop whose battle log fetch failure reaches the outer handler
AddSnapshotAbortsOnFailedFetch(table, c, cr, outcome) ==
    LET member == cr.members[cr.i]
        seen == [cr EXCEPT !.battle_failed = IF outcome.ok THEN @ ELSE @ \cup {cr.i}]
    IN  IF ~outcome.ok THEN ExceptHandler(table, seen)
        ELSE IF "name" \notin DOMAIN member
        THEN ExceptHandler(table, [seen EXCEPT !.cause = "no_name"])
        ELSE [table |-> table,
              call  |-> [seen EXCEPT !.pending = SessionAdd(@, SnapshotRow(c, cr, member, outcome)),
                                     !.added = @ + 1]]

\* lines 72-98 for member number cr.i, once its battle log fetch returned or raised
AddSnapshot(table, c, cr, outcome) ==
    LET member == cr.members[cr.i]
        seen == [cr EXCEPT !.battle_failed = IF outcome.ok THEN @ ELSE @ \cup {cr.i}]
    IN  IF "name" \notin DOMAIN member
        THEN ExceptHandler(table, [seen EXCEPT !.cause = "no_name"])
        ELSE [table |-> table,
              call  |-> [seen EXCEPT !.pending = SessionAdd(@, SnapshotRow(c, cr, member, outcome)),
                                     !.added = @ + 1]]

\* whether db.commit() succeeds, a choice of the store made when the loop is over
CommitOutcomes(cr, i) == IF i > Len(cr.members) THEN BOOLEAN ELSE {TRUE}

\* lines 29-39: entry of create_clan_snapshot, up to the await of line 42
Start(c, clan_tag) ==
    /\ call[c].pc = "idle"
    /\ \A d \in Calls : d < c => call[d].pc # "idle"
    /\ LET today == day
       IN  call' = [call EXCEPT ![c] =
                IF ExistingSnapshot(snapshots, clan_tag, today)
                THEN [@ EXCEPT !.pc = "done", !.clan_tag = clan_tag, !.today = today,
                               !.result = "false"]
                ELSE [@ EXCEPT !.pc = "fetch_members", !.clan_tag = clan_tag,
                               !.today = today]]
    /\ UNCHANGED <<day, snapshots>>
    /\ UNCHANGED besidesSnapshot

\* lines 42-43: the roster fetch returns or raises
FetchMembers(c, upstream) ==
    /\ call[c].pc = "fetch_members"
    /\ \E outcome \in FetchOutcomes(upstream, "members", upstream.members) :
         LET r == IF outcome.ok
                  THEN [table |-> snapshots,
                        call  |-> [call[c] EXCEPT !.members = Get(outcome.data, "items", <<>>),
                                                  !.pc = "fetch_river"]]
                  ELSE ExceptHandler(snapshots, [call[c] EXCEPT !.cause = "members_fetch"])
         IN  /\ call' = [call EXCEPT ![c] = r.call]
             /\ snapshots' = r.table
    /\ UNCHANGED day
    /\ UNCHANGED besidesSnapshot

\* lines 46-54: the river race fetch returns or raises, then the loop is entered
FetchRiverRace(c, upstream) ==
    /\ call[c].pc = "fetch_river"
    /\ \E outcome \in FetchOutcomes(upstream, "river", upstream.river[call[c].clan_tag]),
          commitOk \in CommitOutcomes(call[c], 1) :
         LET river_race == IF outcome.ok THEN Get(outcome.data, "items", <<>>) ELSE <<>>
             r == LoopHead(snapshots, [call[c] EXCEPT !.river_race = river_race,
                                                      !.river_failed = ~outcome.ok], 1, commitOk)
         IN  /\ call' = [call EXCEPT ![c] = r.call]
             /\ snapshots' = r.table
    /\ UNCHANGED day
    /\ UNCHANGED besidesSnapshot

\* lines 73-98 for the current member, then the next member or the commit
FetchBattleLog(c, upstream) ==
    /\ call[c].pc = "fetch_battlelog"
    /\ \E outcome \in FetchOutcomes(upstream, "battlelog", upstream.battlelog),
          commitOk \in CommitOutcomes(call[c], call[c].i + 1) :
         LET a == AddSnapshot(snapshots, c, call[c], outcome)
             r == IF a.call.pc = "done" THEN a
                  ELSE LoopHead(a.table, a.call, call[c].i + 1, commitOk)
         IN  /\ call' = [call EXCEPT ![c] = r.call]
             /\ snapshots' = r.table
    /\ UNCHANGED day
    /\ UNCHANGED besidesSnapshot

\* midnight UTC passes
NextDay ==
    /\ day < MaxDay
    /\ day' = day + 1
    /\ UNCHANGED <<snapshots, call>>
    /\ UNCHANGED besidesSnapshot

(***************************************************************************)
(* PART II - upstream gateway                                              *)
(*                                                                         *)
(* A path is a sequence of characters, so that lower() and the substring   *)
(* tests of the 404 branch are computed as the code computes them.         *)
(***************************************************************************)
UpperCase == <<"A","B","C","D","E","F","G","H","I","J","K","L","M",
               "N","O","P","Q","R","S","T","U","V","W","X","Y","Z">>
LowerCase == <<"a","b","c","d","e","f","g","h","i","j","k","l","m",
               "n","o","p","q","r","s","t","u","v","w","x","y","z">>

LowerChar(ch) ==
    IF \E k \in 1..Len(UpperCase) : UpperCase[k] = ch
    THEN LowerCase[CHOOSE k \in 1..Len(UpperCase) : UpperCase[k] = ch]
    ELSE ch

\* str.lower()
Lower(str) == [k \in 1..Len(str) |-> LowerChar(str[k])]

\* needle in hay
Contains(needle, hay) ==
    \E k \in 1..(Len(hay) - Len(needle) + 1) : SubSeq(hay, k, k + Len(needle) - 1) = needle

StrClan == <<"c","l","a","n">>
StrPlayer == <<"p","l","a","y","e","r">>

PathClans == <<"/","c","l","a","n","s">>
PathPlayer == <<"/","p","l","a","y","e","r","s","/","%","2","3","Q">>
PathPlayerCLAN == <<"/","p","l","a","y","e","r","s","/","%","2","3","C","L","A","N">>
PathCards == <<"/","c","a","r","d","s">>

\* params: None, or a dict, whose items are kept in insertion order
NoParams == [none |-> TRUE]
ParamsNameLimit == [dict |-> << <<"name", "x">>, <<"limit", "10">> >>]
ParamsLimitName == [dict |-> << <<"limit", "10">>, <<"name", "x">> >>]

Requests ==
    { [path |-> PathClans, params |-> ParamsNameLimit],
      [path |-> PathClans, params |-> ParamsLimitName],
      [path |-> PathPlayer, params |-> NoParams],
      [path |-> PathPlayerCLAN, params |-> NoParams],
      [path |-> PathCards, params |-> NoParams] }

\* str(params): "None", or the items rendered in the dict's insertion order
StrParams(params) ==
    IF "none" \in DOMAIN params THEN <<"None">>
    ELSE <<"{">> \o Flatten(params.dict) \o <<"}">>

\* hashlib.md5(...).hexdigest(): equal digests for equal strings, and distinct
\* digests for the distinct strings of this model
Md5(str) == [md5 |-> str]

\* a key made of the path alone
CacheKeyPathOnly(path, params) == <<"api", path, Md5(<<"None">>)>>

\* line 48
CacheKey(path, params) == <<"api", path, Md5(StrParams(params))>>

\* json.dumps / json.loads, and response.json() of a JSON body
Dumps(value) == [json |-> value]
Loads(text) == text.json

NoneValue == [none |-> TRUE]
EmptyMap == [k \in {} |-> NoneValue]

\* JSON documents upstream answers a successful call with
Payloads == { [items |-> <<"a">>], [items |-> <<"b">>] }

API_CACHE_TTL == 300

ErrorStatuses == {429, 404, 403, 500, 503}

\* the body upstream sends with an error status (500 comes with an empty body)
ErrorText(status_code) ==
    CASE status_code = 404 -> Dumps([reason |-> "notFound"])
      [] status_code = 403 -> Dumps([reason |-> "accessDenied"])
      [] status_code = 429 -> Dumps([reason |-> "requestThrottled"])
      [] status_code = 503 -> Dumps([reason |-> "inMaintenance"])
      [] OTHER -> [raw |-> ""]

\* what one await client.get(...) ends with
Responses ==
    { [kind |-> "response", status_code |-> 200, text |-> Dumps(p)] : p \in Payloads }
    \cup { [kind |-> "response", status_code |-> st, text |-> ErrorText(st)] : st \in ErrorStatuses }
    \cup { [kind |-> "timeout", status_code |-> 0, text |-> [raw |-> ""]],
           [kind |-> "connect_error", status_code |-> 0, text |-> [raw |-> ""]] }

\* httpx Response.is_error
IsError(status_code) == status_code >= 400 /\ status_code <= 599

MsgClan == [msg |-> "Clan not found. Please check that your clan tag is correct (e.g., #ABC123)."]
MsgPlayer == [msg |-> "Player not found. Please check that the player tag is correct."]
MsgResource == [msg |-> "Resource not found. Please verify the information is correct."]
MsgDenied == [msg |-> "API access denied. Please check your API token."]
MsgTimeout == [msg |-> "Request to Supercell API timed out"]
MsgConnect == [msg |-> "Failed to connect to Supercell API"]

\* Redis GET / SETEX
RedisGet(store, key) == IF key \in DOMAIN store THEN store[key].value ELSE NoneValue

RedisSetex(store, key, ttl, value) ==
    [k \in DOMAIN store \cup {key} |->
        IF k = key THEN [value |-> value, ttl |-> ttl] ELSE store[k]]

IdleGet ==
    [pc |-> "idle", path |-> <<>>, params |-> NoParams, cache_key |-> <<>>,
     cached |-> NoneValue, data |-> NoneValue, responses |-> <<>>, sleeps |-> 0,
     upstream_calls |-> 0, cache_writes |-> 0, cache_reads |-> 0,
     outcome |-> [kind |-> "none"]]

\* raise HTTPException(status_code, detail)
Raise(cr, status_code, detail) ==
    [cr EXCEPT !.pc = "done",
               !.outcome = [kind |-> "raise", status_code |-> status_code, detail |-> detail]]

Return(cr, data) ==
    [cr EXCEPT !.pc = "done", !.data = NoneValue, !.outcome = [kind |-> "return", data |-> data]]

\* lines 86-100: the message of a 404
NotFoundDetail(path) ==
    IF Contains(StrClan, Lower(path)) THEN MsgClan
    ELSE IF Contains(StrPlayer, Lower(path)) THEN MsgPlayer
    ELSE MsgResource

\* lines 79-115 and 122-127: what get does with the response it ends up with
MapResponse(cr, response) ==
    IF response.kind = "timeout" THEN Raise(cr, 504, MsgTimeout)
    ELSE IF response.kind = "connect_error" THEN Raise(cr, 503, MsgConnect)
    ELSE IF response.status_code = 404 THEN Raise(cr, 404, NotFoundDetail(cr.path))
    ELSE IF response.status_code = 403 THEN Raise(cr, 403, MsgDenied)
    ELSE IF IsError(response.status_code) THEN Raise(cr, response.status_code, response.text)
    ELSE [cr EXCEPT !.data = Loads(response.text), !.pc = "write"]

\* a gateway that stores the body before looking at the status
HandleResponseCachesErrors(store, cr, response, attempt) ==
    LET got == [cr EXCEPT !.responses = Append(@, response), !.upstream_calls = @ + 1]
    IN  IF response.kind = "response" /\ response.status_code = 429 /\ attempt = 1
        THEN [cache |-> store, call |-> [got EXCEPT !.pc = "backoff"]]
        ELSE [cache |-> IF response.kind = "response"
                        THEN RedisSetex(store, cr.cache_key, API_CACHE_TTL, response.text)
                        ELSE store,
              call  |-> MapResponse(got, response)]

\* a gateway that backs off on every 429
HandleResponseRetriesAgain(store, cr, response, attempt) ==
    LET got == [cr EXCEPT !.responses = Append(@, response), !.upstream_calls = @ + 1]
    IN  IF response.kind = "response" /\ response.status_code = 429
        THEN [cache |-> store, call |-> [got EXCEPT !.pc = "backoff"]]
        ELSE [cache |-> store, call |-> MapResponse(got, response)]

\* lines 61-113: one upstream attempt ended with response; attempt is 1 for the
\* call of line 61 and 2 for the retry of line 72.  responses is history, and
\* so are the counts upstream_calls, cache_writes and cache_reads.
HandleResponse(store, cr, response, attempt) ==
    LET got == [cr EXCEPT !.responses = Append(@, response), !.upstream_calls = @ + 1]
    IN  IF response.kind = "response" /\ response.status_code = 429 /\ attempt = 1
        THEN [cache |-> store, call |-> [got EXCEPT !.pc = "backoff"]]
        ELSE [cache |-> store, call |-> MapResponse(got, response)]

\* a store call that keeps the entry for the battle log cache's 600 s
StoreResponseLongTTL(store, cr) == RedisSetex(store, cr.cache_key, 600, Dumps(cr.data))

\* line 118: await self.redis_client.setex(cache_key, API_CACHE_TTL, json.dumps(data))
StoreResponse(store, cr) == RedisSetex(store, cr.cache_key, API_CACHE_TTL, Dumps(cr.data))

\* a lookup under a key that leaves the params out
LookupNoParams(store, cr) == RedisGet(store, <<"api", cr.path>>)

\* line 51: cached = await self.redis_client.get(cache_key)
Lookup(store, cr) == RedisGet(store, cr.cache_key)

\* lines 48-56: entry of get, the cache read, and the return of a hit
GetStart(c, req) ==
    /\ gw[c].pc \in {"idle", "done"}
    /\ LET keyed == [IdleGet EXCEPT !.path = req.path, !.params = req.params,
                                    !.cache_key = CacheKey(req.path, req.params)]
           fresh == [keyed EXCEPT !.cached = Lookup(cache, keyed), !.cache_reads = @ + 1]
       IN  gw' = [gw EXCEPT ![c] =
                IF fresh.cached # NoneValue
                THEN Return(fresh, Loads(fresh.cached))
                ELSE [fresh EXCEPT !.pc = "call1"]]
    /\ UNCHANGED <<cache, written>>
    /\ UNCHANGED besidesGateway

\* lines 61-66, and 79-115 when the status is not 429
Upstream1(c, responses) ==
    /\ gw[c].pc = "call1"
    /\ \E response \in responses :
         LET r == HandleResponse(cache, gw[c], response, 1)
         IN  /\ gw' = [gw EXCEPT ![c] = r.call]
             /\ cache' = r.cache
    /\ UNCHANGED written
    /\ UNCHANGED besidesGateway

\* a retry that looks the key up again after the sleep
BackoffReadsAgain(c) ==
    /\ gw[c].pc = "backoff"
    /\ LET again == [gw[c] EXCEPT !.cached = Lookup(cache, gw[c]), !.cache_reads = @ + 1,
                                  !.sleeps = @ + 1]
       IN  gw' = [gw EXCEPT ![c] =
                IF again.cached # NoneValue
                THEN Return(again, Loads(again.cached))
                ELSE [again EXCEPT !.pc = "call2"]]
    /\ UNCHANGED <<cache, written>>
    /\ UNCHANGED besidesGateway

\* line 71: await asyncio.sleep(1)
Backoff(c) ==
    /\ gw[c].pc = "backoff"
    /\ gw' = [gw EXCEPT ![c].pc = "call2", ![c].sleeps = @ + 1]
    /\ UNCHANGED <<cache, written>>
    /\ UNCHANGED besidesGateway

\* lines 72-77, then 79-115
Upstream2(c, responses) ==
    /\ gw[c].pc = "call2"
    /\ \E response \in responses :
         LET r == HandleResponse(cache, gw[c], response, 2)
         IN  /\ gw' = [gw EXCEPT ![c] = r.call]
             /\ cache' = r.cache
    /\ UNCHANGED written
    /\ UNCHANGED besidesGateway

\* lines 118-120
CacheWrite(c) ==
    /\ gw[c].pc = "write"
    /\ cache' = StoreResponse(cache, gw[c])
    /\ written' = [k \in DOMAIN written \cup {gw[c].cache_key} |->
                     IF k = gw[c].cache_key
                     THEN [path |-> gw[c].path, params |-> gw[c].params,
                           data |-> gw[c].data, age |-> 0]
                     ELSE written[k]]
    /\ gw' = [gw EXCEPT ![c] = Return([gw[c] EXCEPT !.cache_writes = @ + 1], gw[c].data)]
    /\ UNCHANGED besidesGateway

(***************************************************************************)
(* PART III - rate limiter (utils/rate_limiting.py)                        *)
(*                                                                         *)
(* The counters live in the same Redis as the gateway cache, under keys of *)
(* their own; a counter value is the decimal text Redis holds, kept here   *)
(* as the integer it denotes.                                              *)
(***************************************************************************)
GENERAL_RATE_LIMIT == 100
GENERAL_RATE_WINDOW == 3600
AUTH_RATE_LIMIT == 5
AUTH_RATE_WINDOW == 60

\* the two checks differ by key prefix, limit and window only
check_rate_limit ==
    [name |-> "general", prefix |-> "ratelimit:",
     limit |-> GENERAL_RATE_LIMIT, window |-> GENERAL_RATE_WINDOW]

\* an authentication check keyed like the general one
AuthSharesPrefix ==
    [name |-> "auth", prefix |-> "ratelimit:",
     limit |-> AUTH_RATE_LIMIT, window |-> AUTH_RATE_WINDOW]

check_auth_rate_limit ==
    [name |-> "auth", prefix |-> "auth_ratelimit:",
     limit |-> AUTH_RATE_LIMIT, window |-> AUTH_RATE_WINDOW]

Policies == {check_rate_limit, check_auth_rate_limit}

PolicyOf(name) == CHOOSE p \in Policies : p.name = name

\* request.client.host, or the first X-Forwarded-For entry
ClientIp == "10.0.0.1"
Identifiers == {ClientIp}

\* key = f"ratelimit:{identifier}" / f"auth_ratelimit:{identifier}"
LimiterKey(policy, identifier) == policy.prefix \o identifier

\* await redis_client.get(key): None, or the text of the counter
RedisGetCounter(store, key) ==
    IF key \in DOMAIN store THEN [str |-> store[key].value] ELSE NoneValue

\* int(count)
IntOf(count) == count.str

\* await redis_client.setex(key, window, 1)
RedisSetexCounter(store, key, ttl, value) ==
    [k \in DOMAIN store \cup {key} |->
        IF k = key THEN [value |-> value, ttl |-> ttl, expires |-> TRUE] ELSE store[k]]

\* await redis_client.incr(key): a missing key is created at 1 with no expiry;
\* an existing key keeps its time to live
RedisIncr(store, key) ==
    [k \in DOMAIN store \cup {key} |->
        IF k # key THEN store[k]
        ELSE IF key \in DOMAIN store THEN [store[key] EXCEPT !.value = @ + 1]
        ELSE [value |-> 1, ttl |-> 0, expires |-> FALSE]]

IdleCheck ==
    [pc |-> "idle", policy |-> "none", key |-> "", count |-> NoneValue,
     result |-> "none", nth |-> 0]

\* a limit check that admits a request arriving with the counter at the limit
BranchAdmitsAtLimit(policy, count) ==
    IF count = NoneValue THEN "setex"
    ELSE IF IntOf(count) <= policy.limit THEN "incr"
    ELSE "deny"

\* the branch of lines 30-37 / 58-65 taken for the counter read
Branch(policy, count) ==
    IF count = NoneValue THEN "setex"
    ELSE IF IntOf(count) < policy.limit THEN "incr"
    ELSE "deny"

\* history: one more check decided, or admitted, on key
Arrived(arr, key) ==
    [k \in DOMAIN arr \cup {key} |-> IF k = key THEN Get(arr, key, 0) + 1 ELSE arr[k]]

\* a check is decided: it returns result, being the nth decided on its key
Decide(cr, result) ==
    [cr EXCEPT !.pc = "done", !.result = result, !.nth = Get(arrivals, cr.key, 0) + 1]

\* lines 27-30, 33, 36-37: key, the counter read, and return False at the limit
RateGet(c, policy, identifier) ==
    /\ rl[c].pc \in {"idle", "done"}
    /\ LET key == LimiterKey(policy, identifier)
           count == RedisGetCounter(counters, key)
           branch == Branch(policy, count)
           cr == [IdleCheck EXCEPT !.policy = policy.name, !.key = key, !.count = count]
       IN  /\ Get(arrivals, key, 0) < policy.limit + MaxOver
           /\ IF branch = "deny"
              THEN /\ rl' = [rl EXCEPT ![c] = Decide(cr, "false")]
                   /\ arrivals' = Arrived(arrivals, key)
              ELSE /\ rl' = [rl EXCEPT ![c] = [cr EXCEPT !.pc = branch]]
                   /\ UNCHANGED arrivals
    /\ UNCHANGED <<counters, admitted>>
    /\ UNCHANGED besidesLimiter

\* lines 31-32: the first request of a window
RateSetex(c) ==
    /\ rl[c].pc = "setex"
    /\ counters' = RedisSetexCounter(counters, rl[c].key, PolicyOf(rl[c].policy).window, 1)
    /\ arrivals' = Arrived(arrivals, rl[c].key)
    /\ admitted' = Arrived(admitted, rl[c].key)
    /\ rl' = [rl EXCEPT ![c] = Decide(rl[c], "true")]
    /\ UNCHANGED besidesLimiter

\* lines 34-35: a request below the limit
RateIncr(c) ==
    /\ rl[c].pc = "incr"
    /\ counters' = RedisIncr(counters, rl[c].key)
    /\ arrivals' = Arrived(arrivals, rl[c].key)
    /\ admitted' = Arrived(admitted, rl[c].key)
    /\ rl' = [rl EXCEPT ![c] = Decide(rl[c], "true")]
    /\ UNCHANGED besidesLimiter

\* what is left of the counters, and of their history, TickStep seconds later
AgedCounters(store) ==
    [k \in {j \in DOMAIN store : ~store[j].expires \/ store[j].ttl > TickStep} |->
        IF store[k].expires THEN [store[k] EXCEPT !.ttl = @ - TickStep] ELSE store[k]]

Restrict(f, keys) == [k \in DOMAIN f \cap keys |-> f[k]]

\* TickStep seconds pass: Redis drops the keys whose time to live is over
Tick ==
    /\ \/ DOMAIN cache # {}
       \/ \E k \in DOMAIN counters : counters[k].expires
    /\ cache' = [k \in {j \in DOMAIN cache : cache[j].ttl > TickStep} |->
                    [cache[k] EXCEPT !.ttl = @ - TickStep]]
    /\ written' = [k \in {j \in DOMAIN written : written[j].age + TickStep < API_CACHE_TTL} |->
                    [written[k] EXCEPT !.age = @ + TickStep]]
    /\ counters' = AgedCounters(counters)
    /\ arrivals' = Restrict(arrivals, DOMAIN AgedCounters(counters))
    /\ admitted' = Restrict(admitted, DOMAIN AgedCounters(counters))
    /\ UNCHANGED <<gw, rl>>
    /\ UNCHANGED <<svars, rvars, hvars, pvars, tvars, cvars>>

\* routes/health.py clear_cache: await redis_client.flushdb()
ClearCache ==
    /\ DOMAIN cache # {} \/ DOMAIN counters # {}
    /\ cache' = EmptyMap
    /\ written' = EmptyMap
    /\ counters' = EmptyMap
    /\ arrivals' = EmptyMap
    /\ admitted' = EmptyMap
    /\ UNCHANGED <<gw, rl>>
    /\ UNCHANGED <<svars, rvars, hvars, pvars, tvars, cvars>>

(***************************************************************************)
(* PART IV - inbound routes (routes/player.py, routes/clan.py)             *)
(*                                                                         *)
(* One inbound request from its arrival to the return of the first         *)
(* api_service.get of its service layer (the later gets of the same        *)
(* request follow that one).  Tags are sequences of characters.            *)
(***************************************************************************)
Routes ==
    {"resolve_player", "resolve_player_by_name", "predict", "get_player_stats",
     "debug_battlelog", "start_tracking_clan", "create_snapshot", "get_clan_stats"}

\* the routes whose handler calls check_rate_limit (player.py 41, 74, 110, 141;
\* clan.py 192)
RateLimitedRoutes ==
    {"resolve_player", "resolve_player_by_name", "predict", "get_player_stats",
     "get_clan_stats"}

\* the routes whose handler calls validate_player_tag (player.py 32, 106, 137;
\* clan.py 37, 132, 179)
TagValidatedRoutes == Routes \ {"resolve_player_by_name", "debug_battlelog"}

\* the routes that depend on get_current_user (clan.py 26, 120)
AuthenticatedRoutes == {"start_tracking_clan", "create_snapshot"}

Digits == <<"0","1","2","3","4","5","6","7","8","9">>

IsAlnum(ch) ==
    \/ \E k \in 1..Len(UpperCase) : UpperCase[k] = ch \/ LowerCase[k] = ch
    \/ \E k \in 1..Len(Digits) : Digits[k] = ch

UpperChar(ch) ==
    IF \E k \in 1..Len(LowerCase) : LowerCase[k] = ch
    THEN UpperCase[CHOOSE k \in 1..Len(LowerCase) : LowerCase[k] = ch]
    ELSE ch

\* str.upper()
Upper(str) == [k \in 1..Len(str) |-> UpperChar(str[k])]

\* tag.lstrip('#')
RECURSIVE LStripHash(_)
LStripHash(tag) ==
    IF Len(tag) > 0 /\ Head(tag) = "#" THEN LStripHash(Tail(tag)) ELSE tag

\* utils/validation.py validate_player_tag: the validated tag, or the 400 raised
validate_player_tag(tag) ==
    LET clean_tag == LStripHash(tag)
        NotZero(ch) == ch # "0" /\ ch # "O"
        probe == SelectSeq(clean_tag, NotZero)
    IN  IF Len(tag) = 0 THEN [ok |-> FALSE, status_code |-> 400]
        ELSE IF Len(clean_tag) > 15 THEN [ok |-> FALSE, status_code |-> 400]
        ELSE IF Len(probe) = 0 \/ \E k \in 1..Len(probe) : ~IsAlnum(probe[k])
        THEN [ok |-> FALSE, status_code |-> 400]
        ELSE [ok |-> TRUE, tag |-> <<"#">> \o Upper(clean_tag)]

\* urllib.parse.unquote, over tags whose only escape is %23
RECURSIVE Unquote(_)
Unquote(str) ==
    IF Len(str) = 0 THEN <<>>
    ELSE IF Len(str) >= 3 /\ SubSeq(str, 1, 3) = <<"%","2","3">>
    THEN <<"#">> \o Unquote(SubSeq(str, 4, Len(str)))
    ELSE <<Head(str)>> \o Unquote(Tail(str))

\* urllib.parse.quote(tag, safe=""), over letters, digits, '-' and '#'
Quote(str) == Flatten([k \in 1..Len(str) |-> IF str[k] = "#" THEN <<"%","2","3">> ELSE <<str[k]>>])

\* utils/helpers.py enc_tag
enc_tag(tag) ==
    LET decoded == Unquote(tag)
    IN  Quote(IF Len(decoded) > 0 /\ Head(decoded) = "#" THEN decoded ELSE <<"#">> \o decoded)

\* what a client sends: a tag, names that sanitize_string leaves empty or not,
\* a credential get_current_user accepts or not; and what the database holds
\* for the tag: TrackedClan row, snapshot of today, stored deck analysis
RawTags == { <<"#","q">>, <<"%","2","3","Q">>, <<"#","Q","-">>, <<"#","0">> }

Inputs ==
    [tag : RawTags, names_empty : BOOLEAN, authorized : BOOLEAN, tracked : BOOLEAN]

\* the inputs a route reads
RouteInputs(route) ==
    {in \in Inputs :
        /\ route \notin AuthenticatedRoutes => (in.authorized /\ ~in.tracked)
        /\ route \notin {"resolve_player", "resolve_player_by_name"} => ~in.names_empty
        /\ route = "resolve_player_by_name" => in.tag = <<"#","q">>}

StrMembers == <<"/","m","e","m","b","e","r","s">>
StrBattlelog == <<"/","b","a","t","t","l","e","l","o","g">>
StrClansSlash == <<"/","c","l","a","n","s","/">>
StrPlayersSlash == <<"/","p","l","a","y","e","r","s","/">>

\* the first api_service.get of the route's service layer
FirstGet(route, tag) ==
    CASE route = "resolve_player" ->
            [path |-> StrClansSlash \o enc_tag(tag) \o StrMembers, params |-> NoParams]
      [] route = "resolve_player_by_name" -> [path |-> PathClans, params |-> ParamsNameLimit]
      [] route = "predict" ->
            [path |-> StrPlayersSlash \o enc_tag(tag) \o StrBattlelog, params |-> NoParams]
      [] route = "get_player_stats" ->
            [path |-> StrPlayersSlash \o enc_tag(tag), params |-> NoParams]
      [] route = "debug_battlelog" ->
            [path |-> StrPlayersSlash \o enc_tag(tag) \o StrBattlelog, params |-> NoParams]
      [] route = "start_tracking_clan" ->
            [path |-> StrClansSlash \o enc_tag(tag), params |-> NoParams]
      [] route = "create_snapshot" ->
            [path |-> StrClansSlash \o enc_tag(tag) \o StrMembers, params |-> NoParams]
      [] route = "get_clan_stats" ->
            [path |-> StrClansSlash \o enc_tag(tag), params |-> NoParams]

\* limiter: whether check_rate_limit was called for the request and what it
\* returned; status_code: the status of the response, 0 while there is none
IdleRequest ==
    [pc |-> "idle", route |-> "none", tag |-> <<>>, limiter |-> "unchecked",
     status_code |-> 0]

Respond(r, status_code) == [r EXCEPT !.pc = "done", !.status_code = status_code]

\* the handler from its entry to its first await, or to its response when it
\* gives one before any await
Entry(route, in) ==
    LET r == [IdleRequest EXCEPT !.route = route, !.tag = in.tag]
        v == validate_player_tag(in.tag)
        valid == [r EXCEPT !.tag = IF route \in TagValidatedRoutes THEN v.tag ELSE in.tag]
    IN  IF route \in AuthenticatedRoutes /\ ~in.authorized THEN Respond(r, 401)
        ELSE IF route \in TagValidatedRoutes /\ ~v.ok THEN Respond(r, v.status_code)
        ELSE IF in.names_empty THEN Respond(r, 400)
        ELSE IF route \in RateLimitedRoutes THEN [valid EXCEPT !.pc = "rate_limit"]
        ELSE IF route = "start_tracking_clan" /\ in.tracked THEN Respond(valid, 200)
        ELSE IF route = "create_snapshot" /\ ~in.tracked THEN Respond(valid, 404)
        ELSE [valid EXCEPT !.pc = "gateway"]

\* a request arrives at a route
Arrive(c, route, in) ==
    /\ inbound[c].pc = "idle"
    /\ inbound' = [inbound EXCEPT ![c] = Entry(route, in)]
    /\ UNCHANGED <<svars, gvars, lvars, hvars, pvars, tvars, cvars>>

\* client_ip = request.client.host; await check_rate_limit(redis_client, client_ip)
RouteRateLimit(c) ==
    /\ inbound[c].pc = "rate_limit"
    /\ rl[c].pc = "idle"
    /\ RateGet(c, check_rate_limit, ClientIp)

\* the handler past check_rate_limit: 429 when it returned False; else the
\* service layer up to its first api_service.get, which a stored result
\* (clan.py 202-205, player_service.py 134-140) may answer first
AfterRateLimit(c, stored) ==
    /\ inbound[c].pc = "rate_limit"
    /\ rl[c].pc = "done"
    /\ inbound' = [inbound EXCEPT ![c] =
          IF rl[c].result = "false" THEN Respond([@ EXCEPT !.limiter = "denied"], 429)
          ELSE IF stored /\ @.route \in {"predict", "get_clan_stats"}
          THEN Respond([@ EXCEPT !.limiter = "admitted"], 200)
          ELSE [@ EXCEPT !.limiter = "admitted", !.pc = "gateway"]]
    /\ UNCHANGED <<svars, gvars, lvars, hvars, pvars, tvars, cvars>>

\* the first api_service.get of the request
RouteGet(c) ==
    /\ inbound[c].pc = "gateway"
    /\ gw[c].pc = "idle"
    /\ GetStart(c, FirstGet(inbound[c].route, inbound[c].tag))

\* that get returned or raised; create_clan_snapshot swallows what it raises
RouteReturn(c) ==
    /\ inbound[c].pc = "gateway"
    /\ gw[c].pc = "done"
    /\ inbound' = [inbound EXCEPT ![c] =
          IF gw[c].outcome.kind = "raise" /\ @.route # "create_snapshot"
          THEN Respond(@, gw[c].outcome.status_code)
          ELSE Respond(@, 200)]
    /\ UNCHANGED <<svars, gvars, lvars, hvars, pvars, tvars, cvars>>

RouteInit == inbound = [c \in Callers |-> IdleRequest]

\* the counter of an identifier that check_rate_limit has admitted count times
\* in the running window
WindowAt(count) ==
    [key \in {LimiterKey(check_rate_limit, ClientIp)} |->
        [value |-> count, ttl |-> GENERAL_RATE_WINDOW, expires |-> TRUE]]

\* an identifier that has used up its window
ExhaustedWindow == WindowAt(GENERAL_RATE_LIMIT)

(***************************************************************************)
(* PART V - historical deltas (clan_service.py get_historical_stats)       *)
(***************************************************************************)
\* lines 128-133: {...}.get(time_period, 7)
DaysAgo(time_period) ==
    CASE time_period = "week" -> 7
      [] time_period = "2weeks" -> 14
      [] time_period = "month" -> 30
      [] time_period = "all" -> 9999
      [] OTHER -> 7

TimePeriods == {"week", "2weeks", "month", "all", "year"}

\* a query that takes the newest rows of the clan whatever their date
LatestSnapshotsAnyDate(table, clan_tag, today) ==
    {k \in 1..Len(table) :
        /\ table[k].clan_tag = clan_tag
        /\ \A j \in 1..Len(table) :
             table[j].clan_tag = clan_tag => table[j].snapshot_date <= table[k].snapshot_date}

\* lines 138-141: the rows (by position in the table) the first query matches
LatestSnapshots(table, clan_tag, today) ==
    {k \in 1..Len(table) : table[k].clan_tag = clan_tag /\ table[k].snapshot_date = today}

\* lines 147-151: the rows the second query matches
OldSnapshots(table, clan_tag, start_date, today) ==
    {k \in 1..Len(table) :
        /\ table[k].clan_tag = clan_tag
        /\ table[k].snapshot_date >= start_date
        /\ table[k].snapshot_date < today}

\* .all() of a query without ORDER BY: the matching rows in an order the store chooses
RECURSIVE StoreOrders(_)
StoreOrders(rows) ==
    IF rows = {} THEN { <<>> }
    ELSE UNION { { <<k>> \o rest : rest \in StoreOrders(rows \ {k}) } : k \in rows }

\* lines 154-157: the first row met for each player tag
OldLookup(table, old_snapshots) ==
    LET tags == {table[old_snapshots[n]].player_tag : n \in 1..Len(old_snapshots)}
        First(tag) == CHOOSE n \in 1..Len(old_snapshots) :
                         /\ table[old_snapshots[n]].player_tag = tag
                         /\ \A m \in 1..(n - 1) : table[old_snapshots[m]].player_tag # tag
    IN  [tag \in tags |-> table[old_snapshots[First(tag)]]]

\* an entry whose wins are not reduced by the baseline's
HistoryEntryAbsoluteWins(latest, old_lookup) ==
    LET found == latest.player_tag \in DOMAIN old_lookup
        Minus(field) == IF found THEN latest[field] - old_lookup[latest.player_tag][field]
                        ELSE latest[field]
    IN  [name |-> latest.player_name, tag |-> latest.player_tag,
         donations |-> Minus("donations_given"),
         donations_received |-> Minus("donations_received"),
         war_attacks |-> Minus("war_attacks"),
         total_war_attacks |-> latest.total_war_attacks,
         medals |-> Minus("medals"), battles |-> Minus("battles"),
         wins |-> latest.wins, losses |-> Minus("losses"),
         last_seen |-> NoneValue]

\* an entry whose total_war_attacks is reduced by the baseline's
HistoryEntryDeltaTotal(latest, old_lookup) ==
    LET found == latest.player_tag \in DOMAIN old_lookup
        Minus(field) == IF found THEN latest[field] - old_lookup[latest.player_tag][field]
                        ELSE latest[field]
    IN  [name |-> latest.player_name, tag |-> latest.player_tag,
         donations |-> Minus("donations_given"),
         donations_received |-> Minus("donations_received"),
         war_attacks |-> Minus("war_attacks"),
         total_war_attacks |-> Minus("total_war_attacks"),
         medals |-> Minus("medals"), battles |-> Minus("battles"),
         wins |-> Minus("wins"), losses |-> Minus("losses"),
         last_seen |-> NoneValue]

\* lines 162-195: the result entry of one of today's rows
HistoryEntry(latest, old_lookup) ==
    LET found == latest.player_tag \in DOMAIN old_lookup
        old == old_lookup[latest.player_tag]
    IN  [name |-> latest.player_name, tag |-> latest.player_tag,
         donations |-> IF found THEN latest.donations_given - old.donations_given
                       ELSE latest.donations_given,
         donations_received |-> IF found
                                THEN latest.donations_received - old.donations_received
                                ELSE latest.donations_received,
         war_attacks |-> IF found THEN latest.war_attacks - old.war_attacks
                         ELSE latest.war_attacks,
         total_war_attacks |-> latest.total_war_attacks,
         medals |-> IF found THEN latest.medals - old.medals ELSE latest.medals,
         battles |-> IF found THEN latest.battles - old.battles ELSE latest.battles,
         wins |-> IF found THEN latest.wins - old.wins ELSE latest.wins,
         losses |-> IF found THEN latest.losses - old.losses ELSE latest.losses,
         last_seen |-> NoneValue]

IdleHistory ==
    [pc |-> "idle", clan_tag |-> "None", time_period |-> "None", today |-> 0,
     latest_snapshots |-> <<>>, old_lookup |-> EmptyMap, result |-> NoneValue]

\* lines 125-197, given the orders in which the store returns the two queries
get_historical_stats(table, clan_tag, time_period, today, latest_snapshots, old_snapshots) ==
    LET old_lookup == OldLookup(table, old_snapshots)
        base == [IdleHistory EXCEPT !.pc = "done", !.clan_tag = clan_tag,
                                    !.time_period = time_period, !.today = today]
    IN  IF Len(latest_snapshots) = 0 THEN base
        ELSE [base EXCEPT
                !.latest_snapshots = latest_snapshots,
                !.old_lookup = old_lookup,
                !.result = [list |-> [n \in 1..Len(latest_snapshots) |->
                                HistoryEntry(table[latest_snapshots[n]], old_lookup)]]]

\* one call of get_historical_stats; it reads the table and writes nothing
GetHistoricalStats(clan_tag, time_period) ==
    /\ hist.pc = "idle"
    /\ LET today == day
           start_date == today - DaysAgo(time_period)
       IN  \E latest_snapshots \in StoreOrders(LatestSnapshots(snapshots, clan_tag, today)),
              old_snapshots \in StoreOrders(OldSnapshots(snapshots, clan_tag, start_date, today)) :
                hist' = get_historical_stats(snapshots, clan_tag, time_period, today,
                                             latest_snapshots, old_snapshots)
    /\ UNCHANGED <<svars, gvars, lvars, rvars, pvars, tvars, cvars>>

\* What upstream holds for a clan at two times: donations, war log and battle
\* logs grow, Bob leaves and Cy joins.
hAnnEarly == [tag |-> "#P1", name |-> "Ann", donations |-> 20, donationsReceived |-> 2]
hAnnLate == [tag |-> "#P1", name |-> "Ann", donations |-> 50, donationsReceived |-> 9]
hCy == [tag |-> "#P4", name |-> "Cy", donations |-> 3]

HistoryUpstreams(clan_tag) ==
    { [members |-> <<hAnnEarly, mBob>>,
       river_race |-> << Race(<< Standing(clan_tag, << Participant("#P1", 100, 3),
                                                      Participant("#P2", 40, 1) >>) >>) >>,
       battlelog |-> [ok |-> TRUE, data |-> [list |-> << Battle("ladder", 3, 1) >>]]],
      [members |-> <<hAnnLate, hCy>>,
       river_race |-> << Race(<< Standing(clan_tag, << Participant("#P1", 250, 4) >>) >>),
                         Race(<< Standing(clan_tag, << Participant("#P1", 100, 3) >>) >>) >>,
       battlelog |-> [ok |-> TRUE,
                      data |-> [list |-> << Battle("ladder", 3, 1), Battle("ladder", 2, 0),
                                            Battle("pathOfLegend", 0, 1),
                                            Battle("challenge", 1, 2) >>]]] }

SnapshotDates == {snapshots[k].snapshot_date : k \in 1..Len(snapshots)}

\* create_clan_snapshot run from entry to return True with no other request in
\* between: lines 29-102 over the payloads of upstream
TakeSnapshot(clan_tag, upstream) ==
    /\ hist.pc = "idle"
    /\ ~ExistingSnapshot(snapshots, clan_tag, day)
    /\ Cardinality(SnapshotDates \cup {day}) <= MaxSnapshotDays
    /\ LET cr == [IdleCall EXCEPT !.clan_tag = clan_tag, !.today = day,
                                  !.members = upstream.members,
                                  !.river_race = upstream.river_race]
           pending == [n \in 1..Len(upstream.members) |->
                          SnapshotRow(1, cr, upstream.members[n], upstream.battlelog)]
       IN  snapshots' = SessionCommit(snapshots, pending)
    /\ UNCHANGED <<day, call>>
    /\ UNCHANGED besidesSnapshot

\* days go by between one snapshot day and the next request
DayJumps == {1, 7, 30}

DaysPass(n) ==
    /\ hist.pc = "idle"
    /\ day \in SnapshotDates
    /\ day' = day + n
    /\ UNCHANGED <<snapshots, call>>
    /\ UNCHANGED besidesSnapshot

HistoryInit == hist = IdleHistory

(***************************************************************************)
(* PART VI - player service (services/player_service.py, utils/helpers.py) *)
(*                                                                         *)
(* A float is kept in hundredths: a score 85.5 is 8550, a ratio 0.33 is 33.*)
(***************************************************************************)
MatchThreshold == 70

\* the names rosters hold, and the scores fuzz.WRatio can give the searched
\* name against each
RosterNames == {"Ann", "Anne", "Bob"}
Scorers == [RosterNames -> {0, 6900, 6999, 7000, 8550, 10000}]

rAnn == [tag |-> "#P1", name |-> "Ann"]
rAnne == [tag |-> "#P2", name |-> "Anne"]
rBob == [tag |-> "#P3", name |-> "Bob"]
rAnnTwin == [tag |-> "#P4", name |-> "Ann"]

\* GET /clans/{tag}/members as the resolver reads it: rosters, an empty one,
\* a body with no "items", a member with no "tag"
RosterPayloads ==
    { [items |-> <<>>],
      [reason |-> "notFound"],
      [items |-> <<rAnn>>],
      [items |-> <<rBob, rAnne>>],
      [items |-> <<rAnne, rAnn, rAnnTwin>>],
      [items |-> << [name |-> "Bob"] >>] }

\* rapidfuzz process.extractOne(query, names, scorer=fuzz.WRatio): None for no
\* names, else the first name of the highest score
extractOne(names, wratio) ==
    IF Len(names) = 0 THEN NoneValue
    ELSE LET first == CHOOSE k \in 1..Len(names) :
                          /\ \A j \in 1..Len(names) : wratio[names[j]] <= wratio[names[k]]
                          /\ \A j \in 1..(k - 1) : wratio[names[j]] < wratio[names[k]]
         IN  [choice |-> names[first], score |-> wratio[names[first]]]

\* if not match or match[1] < 70 (resolve_player_by_clan_tag, line 41)
BelowThresholdAt70(match) == match = NoneValue \/ match.score <= MatchThreshold * 100

BelowThreshold(match) == match = NoneValue \/ match.score < MatchThreshold * 100

\* next(m for m in members if m["name"] == match[0]), and the dict returned
ChosenMember(members, match) ==
    LET chosen == members[CHOOSE k \in 1..Len(members) :
                              /\ members[k].name = match.choice
                              /\ \A j \in 1..(k - 1) : members[j].name # match.choice]
    IN  IF "tag" \notin DOMAIN chosen THEN [ok |-> FALSE, status_code |-> 500]
        ELSE [ok |-> TRUE, player_tag |-> chosen.tag, name |-> chosen.name,
              confidence |-> match.score \div 100]

\* resolve_player_by_clan_tag past its await, lines 34-49, over what
\* api_service.get returned
resolve_player_by_clan_tag(data, wratio) ==
    LET members == Get(data, "items", <<>>)
        names == [k \in 1..Len(members) |-> members[k].name]
        match == extractOne(names, wratio)
    IN  IF Len(members) = 0 THEN [ok |-> FALSE, status_code |-> 404]
        ELSE IF BelowThreshold(match) THEN [ok |-> FALSE, status_code |-> 404]
        ELSE ChosenMember(members, match)

\* One await api_service.get(...) as the player service sees it: a payload, or
\* the HTTPException the gateway raised
GetOutcomes(payloads) ==
    { [ok |-> TRUE, data |-> p] : p \in payloads }
        \cup { [ok |-> FALSE, status_code |-> code] : code \in {404, 503} }

\* fn: the service function called; data, wratio: what it worked on; mode,
\* battles, counts: the game mode or period, the battles kept and the deck
\* counts; clans, i:
\* the candidate clans and the one the loop is at; flaky: the clans whose roster
\* upstream fails to give; calls: the api_service.get calls made; fetched: the
\* clans whose roster was asked for; result: what it returned or raised
IdlePlayer ==
    [pc |-> "idle", fn |-> "none", data |-> NoneValue, wratio |-> NoneValue,
     clans |-> <<>>, flaky |-> {}, i |-> 0, calls |-> 0, fetched |-> <<>>,
     mode |-> "none", battles |-> <<>>, counts |-> <<>>, result |-> NoneValue,
     tag |-> "None"]

\* one call of resolve_player_by_clan_tag: api_service.get raises, or returns
\* a roster
ResolvePlayerByClanTag(outcome, wratio) ==
    /\ player.pc = "idle"
    /\ player' = [player EXCEPT
          !.pc = "done", !.fn = "resolve_player_by_clan_tag", !.calls = 1,
          !.wratio = wratio,
          !.data = IF outcome.ok THEN outcome.data ELSE NoneValue,
          !.result = IF outcome.ok THEN resolve_player_by_clan_tag(outcome.data, wratio)
                     ELSE [ok |-> FALSE, status_code |-> outcome.status_code]]
    /\ UNCHANGED battle_logs
    /\ UNCHANGED besidesPlayer

SearchLimit == 10

\* the rosters upstream holds, by clan tag; the clans "#F1", "#F2", ... hold
\* nobody of the searched name
ClanDirectory(clan_tag) ==
    CASE clan_tag = "#K1" -> [items |-> <<rBob, rAnne>>]
      [] clan_tag = "#K2" -> [items |-> <<rAnne, rAnn, rAnnTwin>>]
      [] clan_tag = "#K3" -> [items |-> <<rAnn>>]
      [] clan_tag = "#K4" -> [items |-> <<>>]
      [] clan_tag = "#K5" -> [items |-> << [name |-> "Ann"] >>]
      [] OTHER -> [items |-> <<rBob>>]

Clan(clan_tag) == [tag |-> clan_tag, name |-> "Royals"]

\* GET /clans?name=...&limit=10: the clans upstream returns, which the
\* service reads whole
SearchPayloads ==
    { [items |-> <<>>],
      [reason |-> "none"],
      [items |-> << Clan("#K1") >>],
      [items |-> << Clan("#K1"), Clan("#K2") >>],
      [items |-> << Clan("#K4"), Clan("#K5"), Clan("#K3") >>],
      [items |-> << Clan("#K2"), Clan("#K1"), Clan("#K3") >>],
      [items |-> [k \in 1..MaxClansReturned |-> Clan("#F" \o ToString(k))]] }

FlakySets == { {}, {"#K1"}, {"#K2", "#K4"}, {"#F2"} }

\* if match and match[1] >= 70 (resolve_player_by_clan_name, line 87)
AtThreshold(match) == match # NoneValue /\ match.score >= MatchThreshold * 100

\* the body of the try for one candidate clan, lines 83-94, over the roster
\* api_service.get returned: the dict to return, or nothing (no match, or an
\* exception the except clause swallowed)
TryCandidate(members_data, wratio) ==
    LET members == Get(members_data, "items", <<>>)
        names == [k \in 1..Len(members) |-> members[k].name]
        match == extractOne(names, wratio)
    IN  IF AtThreshold(match) /\ ChosenMember(members, match).ok
        THEN ChosenMember(members, match)
        ELSE NoneValue

\* clan_search = await api_service.get("/clans", ...) and lines 73-78
SearchClans(outcome, wratio, flaky) ==
    /\ player.pc = "idle"
    /\ LET clans == IF outcome.ok THEN Get(outcome.data, "items", <<>>) ELSE <<>>
           p == [player EXCEPT !.fn = "resolve_player_by_clan_name", !.calls = 1,
                               !.wratio = wratio, !.flaky = flaky,
                               !.data = IF outcome.ok THEN outcome.data ELSE NoneValue]
       IN  player' =
              IF ~outcome.ok
              THEN [p EXCEPT !.pc = "done",
                             !.result = [ok |-> FALSE, status_code |-> outcome.status_code]]
              ELSE IF Len(clans) = 0
              THEN [p EXCEPT !.pc = "done", !.result = [ok |-> FALSE, status_code |-> 404]]
              ELSE [p EXCEPT !.pc = "loop", !.clans = clans, !.i = 1]
    /\ UNCHANGED battle_logs
    /\ UNCHANGED besidesPlayer

FetchCandidateAbortsOnFailure ==
    /\ player.pc = "loop"
    /\ LET clan == player.clans[player.i]
           found == IF clan.tag \in player.flaky THEN NoneValue
                    ELSE TryCandidate(ClanDirectory(clan.tag), player.wratio)
           p == [player EXCEPT !.calls = @ + 1, !.fetched = Append(@, clan.tag)]
       IN  player' =
              IF found # NoneValue THEN [p EXCEPT !.pc = "done", !.result = found]
              ELSE IF player.i = Len(player.clans) \/ clan.tag \in player.flaky
              THEN [p EXCEPT !.pc = "done", !.result = [ok |-> FALSE, status_code |-> 404]]
              ELSE [p EXCEPT !.i = @ + 1]
    /\ UNCHANGED battle_logs
    /\ UNCHANGED besidesPlayer

\* one pass of the for loop, lines 80-97: the roster of clans[i] is asked for;
\* a match returns, anything else moves to the next clan, and past the last
\* clan line 99 raises
FetchCandidate ==
    /\ player.pc = "loop"
    /\ LET clan == player.clans[player.i]
           found == IF clan.tag \in player.flaky THEN NoneValue
                    ELSE TryCandidate(ClanDirectory(clan.tag), player.wratio)
           p == [player EXCEPT !.calls = @ + 1, !.fetched = Append(@, clan.tag)]
       IN  player' =
              IF found # NoneValue THEN [p EXCEPT !.pc = "done", !.result = found]
              ELSE IF player.i = Len(player.clans)
              THEN [p EXCEPT !.pc = "done", !.result = [ok |-> FALSE, status_code |-> 404]]
              ELSE [p EXCEPT !.i = @ + 1]
    /\ UNCHANGED battle_logs
    /\ UNCHANGED besidesPlayer

(***************************************************************************)
(* utils/helpers.py canon, calculate_mode_stats; the deck ranker           *)
(***************************************************************************)
\* the card names upstream uses here, in the order Python compares str
CardOrder == <<"Arrows", "Giant", "Knight", "Zap">>

CardRank(name) == CHOOSE k \in 1..Len(CardOrder) : CardOrder[k] = name

\* sorted(names): the names in str order, equal names in their order
SortedNames(names) ==
    LET n == Len(names)
        pos(k) == 1 + Cardinality({j \in 1..n :
                          \/ CardRank(names[j]) < CardRank(names[k])
                          \/ CardRank(names[j]) = CardRank(names[k]) /\ j < k})
    IN  [r \in 1..n |-> names[CHOOSE k \in 1..n : pos(k) = r]]

\* sorted(counts.items(), key=lambda kv: kv[1], reverse=True): the higher
\* count first, equal counts in their order (the sort is stable)
SortedByCount(counts) ==
    LET n == Len(counts)
        pos(k) == 1 + Cardinality({j \in 1..n :
                          \/ counts[j].n > counts[k].n
                          \/ counts[j].n = counts[k].n /\ j < k})
    IN  [r \in 1..n |-> counts[CHOOSE k \in 1..n : pos(k) = r]]

canonUnsorted(cards) == [k \in 1..Len(cards) |-> cards[k].name]

\* tuple(sorted(c["name"] for c in cards))
canon(cards) == SortedNames([k \in 1..Len(cards) |-> cards[k].name])

\* round(num / den, 2) in hundredths, for den > 0.  The quotient is halfway
\* between two hundredths only when 8 divides den, which the battle counts
\* here do not reach; Python rounds such a float as its binary value lies.
Round2(num, den) == (200 * num + den) \div (2 * den)

\* round(num / den * 100, 1) in tenths, for den > 0
Round1Percent(num, den) == (2000 * num + den) \div (2 * den)

Card(name) == [name |-> name, id |-> 26000000 + CardRank(name)]

PlayerBattle(type, cards, teamCrowns, opponentCrowns, battleTime) ==
    [type |-> type, battleTime |-> battleTime,
     team |-> << [crowns |-> teamCrowns,
                  cards |-> [k \in 1..Len(cards) |-> Card(cards[k])]] >>,
     opponent |-> << [crowns |-> opponentCrowns] >>]

\* the battles a log is made of: Trophy Road, Path of Legend, ladder (an old
\* one), 2v2, one with no team, one with a team that has no cards and with
\* no opponent
BattleKinds ==
    { PlayerBattle("trail", <<"Knight", "Zap">>, 3, 1, 1),
      PlayerBattle("trail", <<"Zap", "Knight">>, 0, 2, 1),
      PlayerBattle("pathOfLegend", <<"Giant", "Zap">>, 1, 1, 1),
      PlayerBattle("pathOfLegend", <<"Arrows", "Giant">>, 2, 0, 1),
      PlayerBattle("ladder", <<"Arrows", "Knight">>, 1, 3, -20),
      PlayerBattle("2v2", <<"Knight", "Zap">>, 3, 0, 1),
      [type |-> "trail", battleTime |-> 1],
      [type |-> "challenge", battleTime |-> 1, team |-> << [crowns |-> 2] >>] }

RECURSIVE SeqsUpTo(_, _)
SeqsUpTo(S, n) ==
    IF n = 0 THEN { <<>> }
    ELSE LET shorter == SeqsUpTo(S, n - 1)
         IN  shorter \cup { Append(s, x) : s \in {t \in shorter : Len(t) = n - 1}, x \in S }

\* GET /players/{tag}/battlelog: a JSON list of up to MaxBattles battles, or a
\* dict with or without "items"
BattleLogResponses ==
    { [list |-> battles] : battles \in SeqsUpTo(BattleKinds, MaxBattles) }
        \cup { [dict |-> [reason |-> "none"]] }
        \cup { [dict |-> [items |-> <<b>>]] : b \in BattleKinds }

\* battle_log if isinstance(battle_log, list) else battle_log.get("items", [])
BattlesOf(response) ==
    IF "list" \in DOMAIN response THEN response.list ELSE Get(response.dict, "items", <<>>)

\* whether the try body of the counting loop reaches counts[deck_key] for b
Countable(b) ==
    /\ "team" \in DOMAIN b
    /\ Len(b.team) > 0
    /\ "cards" \in DOMAIN b.team[1]
    /\ \A k \in 1..Len(b.team[1].cards) : "name" \in DOMAIN b.team[1].cards[k]

\* the counts dict after the counting loop, in insertion order
\* (player_service.py 169-179 and 267-276)
RECURSIVE CountDecks(_)
CountDecks(battles) ==
    IF Len(battles) = 0 THEN <<>>
    ELSE LET counts == CountDecks(SubSeq(battles, 1, Len(battles) - 1))
             b == battles[Len(battles)]
         IN  IF ~Countable(b) THEN counts
             ELSE LET deck_key == canon(b.team[1].cards)
                  IN  IF \E k \in 1..Len(counts) : counts[k].deck = deck_key
                      THEN [k \in 1..Len(counts) |->
                               IF counts[k].deck = deck_key
                               THEN [counts[k] EXCEPT !.n = @ + 1]
                               ELSE counts[k]]
                      ELSE Append(counts, [deck |-> deck_key, n |-> 1])

Reverse(seq) == [k \in 1..Len(seq) |-> seq[Len(seq) + 1 - k]]

TopDecksLastSeenFirst(counts) ==
    LET sum == SumSeq([k \in 1..Len(counts) |-> counts[k].n])
        total == IF sum = 0 THEN 1 ELSE sum
        ranked == SortedByCount(Reverse(counts))
        top3 == SubSeq(ranked, 1, Min(3, Len(ranked)))
    IN  [k \in 1..Len(top3) |->
            [deck |-> top3[k].deck, confidence |-> Round2(top3[k].n, total)]]

TopDecksOverTop3(counts) ==
    LET ranked == SortedByCount(counts)
        top3 == SubSeq(ranked, 1, Min(3, Len(ranked)))
        total == IF Len(top3) = 0 THEN 1 ELSE SumSeq([k \in 1..Len(top3) |-> top3[k].n])
    IN  [k \in 1..Len(top3) |->
            [deck |-> top3[k].deck, confidence |-> Round2(top3[k].n, total)]]

\* total = sum(counts.values()) or 1; top3 = sorted(counts.items(), key=lambda
\* kv: kv[1], reverse=True)[:3]; decks (player_service.py 191-193, 278-280)
TopDecks(counts) ==
    LET sum == SumSeq([k \in 1..Len(counts) |-> counts[k].n])
        total == IF sum = 0 THEN 1 ELSE sum
        ranked == SortedByCount(counts)
        top3 == SubSeq(ranked, 1, Min(3, Len(ranked)))
    IN  [k \in 1..Len(top3) |->
            [deck |-> top3[k].deck, confidence |-> Round2(top3[k].n, total)]]

GameModes == {"ladder", "ranked", "all"}

\* lines 149-157: the battles of the game mode
FilterByMode(battles, game_mode) ==
    CASE game_mode = "ladder" -> SelectSeq(battles, LAMBDA b : Get(b, "type", "None") = "trail")
      [] game_mode = "ranked" ->
            SelectSeq(battles, LAMBDA b : Get(b, "type", "None") = "pathOfLegend")
      [] OTHER -> battles

CacheMinutes == 10

\* a stored analysis keyed by the player alone
BattleLogKeyNoMode(player_tag, game_mode) == player_tag

BattleLogKey(player_tag, game_mode) == player_tag \o ":" \o game_mode

\* get_cached_battle_log: the stored row if it is younger than cache_minutes
get_cached_battle_log(table, cache_key) ==
    IF cache_key \in DOMAIN table /\ table[cache_key].age < CacheMinutes
    THEN table[cache_key]
    ELSE NoneValue

\* save_battle_log: db.merge(log); db.commit()
save_battle_log(table, cache_key, battles, deck_analysis) ==
    [key \in DOMAIN table \cup {cache_key} |->
        IF key = cache_key
        THEN [battles |-> battles, deck_analysis |-> deck_analysis, age |-> 0]
        ELSE table[key]]

\* one call of predict_player_decks
PredictPlayerDecks(player_tag, game_mode, outcome) ==
    /\ player.pc = "idle"
    /\ LET cache_key == BattleLogKey(player_tag, game_mode)
           cached_data == get_cached_battle_log(battle_logs, cache_key)
           battles == IF outcome.ok THEN BattlesOf(outcome.data) ELSE <<>>
           filtered_battles == FilterByMode(battles, game_mode)
           counts == CountDecks(filtered_battles)
           decks == TopDecks(counts)
           p == [player EXCEPT !.pc = "done", !.fn = "predict_player_decks",
                               !.mode = game_mode, !.tag = player_tag]
           q == [p EXCEPT !.calls = 1, !.battles = filtered_battles, !.counts = counts,
                          !.data = IF outcome.ok THEN outcome.data ELSE NoneValue]
       IN  IF game_mode \notin GameModes
           THEN /\ player' = [p EXCEPT !.result = [ok |-> FALSE, status_code |-> 400]]
                /\ UNCHANGED battle_logs
           ELSE IF cached_data # NoneValue
           THEN /\ player' = [p EXCEPT !.result =
                                 [ok |-> TRUE, player_tag |-> player_tag,
                                  top3 |-> cached_data.deck_analysis.top3,
                                  cached |-> TRUE]]
                /\ UNCHANGED battle_logs
           ELSE IF ~outcome.ok
           THEN /\ player' = [q EXCEPT !.result =
                                 [ok |-> FALSE, status_code |-> outcome.status_code]]
                /\ UNCHANGED battle_logs
           ELSE IF Len(filtered_battles) = 0
           THEN /\ player' = [q EXCEPT !.result = [ok |-> FALSE, status_code |-> 404]]
                /\ UNCHANGED battle_logs
           ELSE IF Len(counts) = 0
           THEN /\ player' = [q EXCEPT !.result = [ok |-> FALSE, status_code |-> 404]]
                /\ UNCHANGED battle_logs
           ELSE /\ player' = [q EXCEPT !.result =
                                 [ok |-> TRUE, player_tag |-> player_tag, top3 |-> decks,
                                  cached |-> FALSE]]
                /\ battle_logs' = save_battle_log(battle_logs, cache_key, filtered_battles,
                                      [top3 |-> decks, game_mode |-> game_mode])
    /\ UNCHANGED besidesPlayer

\* the response of predict_player_decks went out; the next request may come
PredictReturn ==
    /\ player.pc = "done" /\ player.fn = "predict_player_decks"
    /\ player' = IdlePlayer
    /\ UNCHANGED battle_logs
    /\ UNCHANGED besidesPlayer

\* minutes pass between two requests: utcnow() - fetched_at grows for every row
MinuteStep == 5
MaxAge == 15

MinutesPass ==
    /\ player.pc = "idle"
    /\ \E key \in DOMAIN battle_logs : battle_logs[key].age < MaxAge
    /\ battle_logs' = [key \in DOMAIN battle_logs |->
                          [battle_logs[key] EXCEPT !.age = Min(@ + MinuteStep, MaxAge)]]
    /\ UNCHANGED player
    /\ UNCHANGED besidesPlayer

\* lines 234-248: the result of each of the first ten battles that has a team
RecentResults(battles) ==
    LET first10 == SubSeq(battles, 1, Min(10, Len(battles)))
        withTeam == SelectSeq(first10, LAMBDA b : "team" \in DOMAIN b /\ Len(b.team) > 0)
        crowns(side) == IF Len(side) = 0 THEN 0 ELSE Get(side[1], "crowns", 0)
    IN  [k \in 1..Len(withTeam) |->
            LET team_crowns == crowns(withTeam[k].team)
                opponent_crowns == crowns(Get(withTeam[k], "opponent", <<>>))
            IN  IF team_crowns > opponent_crowns THEN "win"
                ELSE IF opponent_crowns > team_crowns THEN "loss"
                ELSE "draw"]

\* one call of get_player_stats: the profile fetch, the battle log fetch,
\* lines 227-301
GetPlayerStats(profile, outcome) ==
    /\ player.pc = "idle"
    /\ LET battles == IF outcome.ok THEN BattlesOf(outcome.data) ELSE <<>>
           wl == calculate_wins_losses(battles)
           total_battles == wl.wins + wl.losses
           ranked_battles == SelectSeq(battles,
                                LAMBDA b : Get(b, "type", "None") \in {"pathOfLegend", "ladder"})
           counts == CountDecks(ranked_battles)
           p == [player EXCEPT !.pc = "done", !.fn = "get_player_stats"]
       IN  player' =
              IF ~profile.ok
              THEN [p EXCEPT !.calls = 1,
                             !.result = [ok |-> FALSE, status_code |-> profile.status_code]]
              ELSE IF ~outcome.ok
              THEN [p EXCEPT !.calls = 2,
                             !.result = [ok |-> FALSE, status_code |-> outcome.status_code]]
              ELSE [p EXCEPT !.calls = 2, !.data = outcome.data, !.battles = ranked_battles,
                             !.counts = counts,
                             !.result =
                                [ok |-> TRUE,
                                 name |-> Get(profile.data, "name", "Unknown"),
                                 total_battles |-> total_battles,
                                 wins |-> wl.wins, losses |-> wl.losses,
                                 win_rate |-> IF total_battles > 0
                                              THEN Round1Percent(wl.wins, total_battles)
                                              ELSE 0,
                                 recent_battles |-> RecentResults(battles),
                                 top_decks |-> TopDecks(counts)]]
    /\ UNCHANGED battle_logs
    /\ UNCHANGED besidesPlayer

ModeBattleOutcome(battle, battle_type) ==
    IF Get(battle, "type", "None") # battle_type THEN "skip"
    ELSE IF "team" \notin DOMAIN battle \/ Len(battle.team) = 0 THEN "skip"
    ELSE LET opp == Get(battle, "opponent", <<>>)
             team_crowns == Get(battle.team[1], "crowns", 0)
             opponent_crowns == IF Len(opp) = 0 THEN 0 ELSE Get(opp[1], "crowns", 0)
         IN  IF team_crowns > opponent_crowns THEN "win"
             ELSE IF opponent_crowns > team_crowns THEN "loss"
             ELSE "draw"

ModeStatsExcludingDraws(battles, battle_type) ==
    LET counted == SelectSeq(battles,
                      LAMBDA b : ModeBattleOutcome(b, battle_type) \in {"win", "loss"})
        total_crowns == SumSeq([k \in 1..Len(counted) |-> Get(counted[k].team[1], "crowns", 0)])
    IN  [battles |-> Len(counted),
         wins |-> Len(SelectSeq(counted, LAMBDA b : ModeBattleOutcome(b, battle_type) = "win")),
         losses |-> Len(SelectSeq(counted, LAMBDA b : ModeBattleOutcome(b, battle_type) = "loss")),
         avg_crowns |-> IF Len(counted) > 0 THEN Round2(total_crowns, Len(counted)) ELSE 0]

\* utils/helpers.py calculate_mode_stats; avg_crowns in hundredths
calculate_mode_stats(battles, battle_type) ==
    LET counted == SelectSeq(battles, LAMBDA b : ModeBattleOutcome(b, battle_type) # "skip")
        total_crowns == SumSeq([k \in 1..Len(counted) |-> Get(counted[k].team[1], "crowns", 0)])
    IN  [battles |-> Len(counted),
         wins |-> Len(SelectSeq(counted, LAMBDA b : ModeBattleOutcome(b, battle_type) = "win")),
         losses |-> Len(SelectSeq(counted, LAMBDA b : ModeBattleOutcome(b, battle_type) = "loss")),
         avg_crowns |-> IF Len(counted) > 0 THEN Round2(total_crowns, Len(counted)) ELSE 0]

\* routes/clan.py 228-233: days_filter
DaysFilter(time_period) ==
    CASE time_period = "week" -> 7
      [] time_period = "2weeks" -> 14
      [] time_period = "month" -> 30
      [] time_period = "all" -> 9999
      [] OTHER -> 7

\* routes/clan.py 248-265: the battle statistics of one member in
\* get_clan_stats, from the battle log fetch; battleTime is a day
MemberBattleStats(time_period, outcome) ==
    /\ player.pc = "idle"
    /\ LET cutoff_date == day - DaysFilter(time_period)
           battles == IF outcome.ok THEN BattlesOf(outcome.data) ELSE <<>>
           filtered_battles ==
               SelectSeq(battles, LAMBDA b : "battleTime" \in DOMAIN b
                                              /\ b.battleTime >= cutoff_date)
           wl == calculate_wins_losses(filtered_battles)
       IN  player' = [player EXCEPT
              !.pc = "done", !.fn = "get_clan_stats", !.calls = 1, !.mode = time_period,
              !.data = IF outcome.ok THEN outcome.data ELSE NoneValue,
              !.battles = filtered_battles,
              !.result =
                 IF outcome.ok
                 THEN [battles |-> Len(filtered_battles), wins |-> wl.wins,
                       losses |-> wl.losses,
                       ranked |-> calculate_mode_stats(filtered_battles, "pathOfLegend"),
                       ladder |-> calculate_mode_stats(filtered_battles, "trail")]
                 ELSE [battles |-> 0, wins |-> 0, losses |-> 0,
                       ranked |-> [battles |-> 0, wins |-> 0, losses |-> 0, avg_crowns |-> 0],
                       ladder |-> [battles |-> 0, wins |-> 0, losses |-> 0, avg_crowns |-> 0]]]
    /\ UNCHANGED battle_logs
    /\ UNCHANGED besidesPlayer

PlayerInit ==
    /\ player = IdlePlayer
    /\ battle_logs = EmptyMap

(***************************************************************************)
(* PART VII - clan tracking (routes/clan.py start_tracking_clan over the   *)
(* tracked_clans table, models/clan.py TrackedClan)                        *)
(***************************************************************************)
\* db.query(TrackedClan).filter_by(clan_tag=...).first()
TrackedRow(table, clan_tag) ==
    IF \E k \in 1..Len(table) : table[k].clan_tag = clan_tag
    THEN table[CHOOSE k \in 1..Len(table) :
                   /\ table[k].clan_tag = clan_tag
                   /\ \A j \in 1..(k - 1) : table[j].clan_tag # clan_tag]
    ELSE NoneValue

\* a table whose clan_tag column is no key
TrackedInsertNoKey(table, row) == [ok |-> TRUE, table |-> Append(table, row)]

\* db.add(tracked_clan); db.commit(): clan_tag is the primary key, so the
\* insert of a second row of one clan_tag raises IntegrityError
TrackedInsert(table, row) ==
    IF TrackedRow(table, row.clan_tag) # NoneValue
    THEN [ok |-> FALSE, table |-> table]
    ELSE [ok |-> TRUE, table |-> Append(table, row)]

\* GET /clans/{tag}: the clan info, with or without a name
ClanInfoPayloads == { [name |-> "Royals"], [tag |-> "#C1"] }

IdleTrack ==
    [pc |-> "idle", clan_tag |-> "None", clan_name |-> "None", calls |-> 0,
     result |-> NoneValue]

\* lines 37-49: the entry of start_tracking_clan for a valid tag, up to the
\* await of line 53, or to the return of the record of a tracked clan
TrackStart(c, clan_tag) ==
    /\ track[c].pc = "idle"
    /\ LET tracked == TrackedRow(tracked_clans, clan_tag)
       IN  track' = [track EXCEPT ![c] =
              IF tracked # NoneValue
              THEN [@ EXCEPT !.pc = "done", !.clan_tag = clan_tag,
                             !.result = [ok |-> TRUE,
                                         message |-> "Clan is already being tracked",
                                         clan_tag |-> tracked.clan_tag,
                                         clan_name |-> tracked.clan_name,
                                         tracking_started |-> tracked.tracking_started,
                                         snapshot_created |-> FALSE]]
              ELSE [@ EXCEPT !.pc = "fetch", !.clan_tag = clan_tag]]
    /\ UNCHANGED <<tracked_clans, svars>>
    /\ UNCHANGED besidesTracking

\* lines 53-69: the clan info fetch returned or raised; the row is added and
\* committed, up to the await of line 72
TrackInsert(c, outcome) ==
    /\ track[c].pc = "fetch"
    /\ LET clan_name == IF outcome.ok THEN Get(outcome.data, "name", "Unknown") ELSE "None"
           tracked_clan == [clan_tag |-> track[c].clan_tag, clan_name |-> clan_name,
                            tracked_by_user_id |-> c, is_active |-> TRUE,
                            tracking_started |-> day]
           committed == TrackedInsert(tracked_clans, tracked_clan)
       IN  IF ~outcome.ok
           THEN /\ track' = [track EXCEPT ![c] =
                      [@ EXCEPT !.pc = "done", !.calls = @ + 1,
                                !.result = [ok |-> FALSE,
                                            status_code |-> outcome.status_code]]]
                /\ UNCHANGED tracked_clans
           ELSE /\ tracked_clans' = committed.table
                /\ track' = [track EXCEPT ![c] =
                      IF committed.ok
                      THEN [@ EXCEPT !.pc = "snapshot", !.calls = @ + 1,
                                     !.clan_name = clan_name]
                      ELSE [@ EXCEPT !.pc = "done", !.calls = @ + 1,
                                     !.result = [ok |-> FALSE, status_code |-> 500]]]
    /\ UNCHANGED svars
    /\ UNCHANGED besidesTracking

\* lines 72-84: create_clan_snapshot run from entry to return with no other
\* request in between, over the payloads of upstream or failing; then the
\* response
TrackSnapshot(c, upstream, fails) ==
    /\ track[c].pc = "snapshot"
    /\ LET clan_tag == track[c].clan_tag
           cr == [IdleCall EXCEPT !.clan_tag = clan_tag, !.today = day,
                                  !.members = upstream.members,
                                  !.river_race = upstream.river_race]
           pending == [n \in 1..Len(upstream.members) |->
                          SnapshotRow(c, cr, upstream.members[n], upstream.battlelog)]
           snapshot_created == ~ExistingSnapshot(snapshots, clan_tag, day) /\ ~fails
       IN  /\ snapshots' = IF snapshot_created THEN SessionCommit(snapshots, pending)
                           ELSE snapshots
           /\ track' = [track EXCEPT ![c] =
                 [@ EXCEPT !.pc = "done",
                           !.result = [ok |-> TRUE,
                                       message |-> "Clan tracking started successfully",
                                       clan_tag |-> clan_tag,
                                       clan_name |-> track[c].clan_name,
                                       tracking_started |->
                                           TrackedRow(tracked_clans, clan_tag).tracking_started,
                                       snapshot_created |-> snapshot_created]]]
    /\ UNCHANGED <<tracked_clans, day, call>>
    /\ UNCHANGED besidesTracking

TrackingInit ==
    /\ tracked_clans = <<>>
    /\ track = [c \in Callers |-> IdleTrack]

(***************************************************************************)
(* PART VIII - clan statistics (routes/clan.py get_clan_stats)             *)
(*                                                                         *)
(* One request from its entry to its response, one step per await.  The    *)
(* clan_stats entries live in the same Redis as the gateway cache.         *)
(***************************************************************************)
CLAN_STATS_CACHE_TTL == 300

ValidPeriods == {"week", "2weeks", "month", "all"}

\* line 199: cache_key = f"clan_stats:{validated_clan_tag}:{time_period}"
StatsKey(clan_tag, time_period) == <<"clan_stats", clan_tag, time_period>>

IdleStats ==
    [pc |-> "idle", clan_tag |-> "None", time_period |-> "None", clan_name |-> "None",
     members |-> <<>>, river_race |-> <<>>, i |-> 0, player_data |-> NoneValue,
     member_stats_list |-> <<>>, failed |-> {}, raised |-> <<>>, calls |-> 0,
     cache_writes |-> 0, result |-> NoneValue]

\* one await api_service.get(...) of the request ended.  calls and raised are
\* history: the gets made, and the status of each HTTPException they raised.
StatsFetched(cr, outcome) ==
    [cr EXCEPT !.calls = @ + 1,
               !.raised = IF outcome.ok THEN @ ELSE Append(@, outcome.status_code)]

\* lines 304-323: the entry of a member whose processing raised
ZeroStats(member) ==
    [name |-> member.name, tag |-> member.tag,
     donations |-> Get(member, "donations", 0),
     donations_received |-> Get(member, "donationsReceived", 0),
     war_attacks |-> 0, total_war_attacks |-> 0, battles |-> 0, wins |-> 0, losses |-> 0,
     ranked_battles |-> 0, ranked_wins |-> 0, ranked_losses |-> 0, ranked_avg_crowns |-> 0,
     ladder_battles |-> 0, ladder_wins |-> 0, ladder_losses |-> 0, ladder_avg_crowns |-> 0,
     last_seen |-> NoneValue]

\* lines 248-300: the entry of a member whose two fetches returned
MemberStats(cr, member, player_data, battle_log) ==
    LET battles == BattlesOf(battle_log)
        cutoff_date == day - DaysFilter(cr.time_period)
        filtered_battles ==
            SelectSeq(battles, LAMBDA b : "battleTime" \in DOMAIN b
                                           /\ b.battleTime >= cutoff_date)
        wl == calculate_wins_losses(filtered_battles)
        ranked_stats == calculate_mode_stats(filtered_battles, "pathOfLegend")
        ladder_stats == calculate_mode_stats(filtered_battles, "trail")
        war == WarStats(cr.river_race, cr.clan_tag, member.tag)
    IN  [name |-> member.name, tag |-> member.tag,
         donations |-> Get(member, "donations", 0),
         donations_received |-> Get(member, "donationsReceived", 0),
         war_attacks |-> war.war_attacks, total_war_attacks |-> war.total_war_attacks,
         battles |-> Len(filtered_battles), wins |-> wl.wins, losses |-> wl.losses,
         ranked_battles |-> ranked_stats.battles, ranked_wins |-> ranked_stats.wins,
         ranked_losses |-> ranked_stats.losses,
         ranked_avg_crowns |-> ranked_stats.avg_crowns,
         ladder_battles |-> ladder_stats.battles, ladder_wins |-> ladder_stats.wins,
         ladder_losses |-> ladder_stats.losses,
         ladder_avg_crowns |-> ladder_stats.avg_crowns,
         last_seen |-> Get(player_data, "lastSeen", NoneValue)]

\* lines 340-350: an HTTPException leaves as it is, anything else as a 500
StatsRaise(cr, status_code) ==
    [cr EXCEPT !.pc = "done", !.result = [ok |-> FALSE, status_code |-> status_code]]

\* lines 326-338: the response, stored under the key of the request and returned
StatsFinish(store, cr) ==
    LET response_data == [clan_name |-> cr.clan_name, clan_tag |-> cr.clan_tag,
                          members |-> cr.member_stats_list,
                          time_period |-> cr.time_period,
                          is_tracked |-> FALSE, tracking_since |-> NoneValue]
    IN  [cache |-> RedisSetex(store, StatsKey(cr.clan_tag, cr.time_period),
                              CLAN_STATS_CACHE_TTL, Dumps(response_data)),
         call  |-> [cr EXCEPT !.pc = "done", !.cache_writes = @ + 1,
                              !.result = [ok |-> TRUE, data |-> response_data]]]

\* a loop that gives up at the first member whose processing raised
StatsAppendAbortsOnFailure(store, cr, fetched, entry) ==
    IF ~fetched \/ "name" \notin DOMAIN cr.members[cr.i]
    THEN [cache |-> store, call |-> StatsRaise(cr, 500)]
    ELSE LET added == [cr EXCEPT !.member_stats_list = Append(@, entry),
                                 !.player_data = NoneValue]
         IN  IF cr.i + 1 > Len(cr.members) THEN StatsFinish(store, added)
             ELSE IF "tag" \notin DOMAIN cr.members[cr.i + 1]
             THEN [cache |-> store, call |-> StatsRaise(added, 500)]
             ELSE [cache |-> store, call |-> [added EXCEPT !.i = cr.i + 1, !.pc = "player"]]

\* lines 239-240 for member number i, up to the await of line 244; past the
\* last member, lines 326-338.  member["tag"] is read outside the try.
StatsLoopHead(store, cr, i) ==
    IF i > Len(cr.members) THEN StatsFinish(store, cr)
    ELSE IF "tag" \notin DOMAIN cr.members[i]
    THEN [cache |-> store, call |-> StatsRaise(cr, 500)]
    ELSE [cache |-> store, call |-> [cr EXCEPT !.i = i, !.pc = "player"]]

\* lines 281-324: the entry of member number cr.i is appended, by the try
\* (fetched) or by the handler; member["name"] raises out of both
StatsAppend(store, cr, fetched, entry) ==
    IF "name" \notin DOMAIN cr.members[cr.i]
    THEN [cache |-> store, call |-> StatsRaise(cr, 500)]
    ELSE StatsLoopHead(store,
                       [cr EXCEPT !.member_stats_list = Append(@, entry),
                                  !.player_data = NoneValue],
                       cr.i + 1)

\* lines 179-213: the period check, the cache read and the return of a hit
StatsStart(clan_tag, time_period) ==
    /\ stats.pc = "idle"
    /\ LET cr == [IdleStats EXCEPT !.clan_tag = clan_tag, !.time_period = time_period]
           cached == RedisGet(cache, StatsKey(clan_tag, time_period))
       IN  stats' = IF time_period \notin ValidPeriods THEN StatsRaise(cr, 400)
                    ELSE IF cached # NoneValue
                    THEN [cr EXCEPT !.pc = "done",
                                    !.result = [ok |-> TRUE, data |-> Loads(cached)]]
                    ELSE [cr EXCEPT !.pc = "clan_info"]
    /\ UNCHANGED gvars
    /\ UNCHANGED besidesStats

\* lines 213-214: the clan info fetch returned or raised
StatsClanInfo(outcome) ==
    /\ stats.pc = "clan_info"
    /\ stats' = IF ~outcome.ok
                THEN StatsRaise(StatsFetched(stats, outcome), outcome.status_code)
                ELSE [StatsFetched(stats, outcome) EXCEPT
                         !.pc = "members",
                         !.clan_name = Get(outcome.data, "name", "Unknown")]
    /\ UNCHANGED gvars
    /\ UNCHANGED besidesStats

\* lines 217-218: the roster fetch returned or raised
StatsMembers(outcome) ==
    /\ stats.pc = "members"
    /\ stats' = IF ~outcome.ok
                THEN StatsRaise(StatsFetched(stats, outcome), outcome.status_code)
                ELSE [StatsFetched(stats, outcome) EXCEPT
                         !.pc = "river", !.members = Get(outcome.data, "items", <<>>)]
    /\ UNCHANGED gvars
    /\ UNCHANGED besidesStats

\* lines 221-240: the war log fetch returned or raised; then the loop head
StatsRiverRace(outcome) ==
    /\ stats.pc = "river"
    /\ LET cr == [StatsFetched(stats, outcome) EXCEPT
                               !.river_race = IF outcome.ok
                                              THEN Get(outcome.data, "items", <<>>)
                                              ELSE <<>>]
           r == StatsLoopHead(cache, cr, 1)
       IN  stats' = r.call /\ cache' = r.cache
    /\ UNCHANGED <<written, gw>>
    /\ UNCHANGED besidesStats

\* line 244: the player fetch of member number i returned or raised.  failed
\* is history: the members (by position) one of whose fetches raised.
StatsPlayer(outcome) ==
    /\ stats.pc = "player"
    /\ LET cr == StatsFetched(stats, outcome)
           r == IF outcome.ok
                THEN [cache |-> cache,
                      call  |-> [cr EXCEPT !.pc = "battlelog", !.player_data = outcome.data]]
                ELSE StatsAppend(cache, [cr EXCEPT !.failed = @ \cup {cr.i}], FALSE,
                                 ZeroStats(cr.members[cr.i]))
       IN  stats' = r.call /\ cache' = r.cache
    /\ UNCHANGED <<written, gw>>
    /\ UNCHANGED besidesStats

\* lines 247-324: the battle log fetch of member number i returned or raised
StatsBattleLog(outcome) ==
    /\ stats.pc = "battlelog"
    /\ LET cr == StatsFetched(stats, outcome)
           member == cr.members[cr.i]
           r == IF outcome.ok
                THEN StatsAppend(cache, cr, TRUE,
                                 MemberStats(cr, member, cr.player_data, outcome.data))
                ELSE StatsAppend(cache, [cr EXCEPT !.failed = @ \cup {cr.i}], FALSE,
                                 ZeroStats(member))
       IN  stats' = r.call /\ cache' = r.cache
    /\ UNCHANGED <<written, gw>>
    /\ UNCHANGED besidesStats

StatsInit == stats = IdleStats

GatewayInit ==
    /\ cache = EmptyMap
    /\ written = EmptyMap
    /\ gw = [c \in Callers |-> IdleGet]

SnapshotInit ==
    /\ day = 1
    /\ snapshots = <<>>
    /\ call = [c \in Calls |-> IdleCall]

LimiterInit ==
    /\ counters = EmptyMap
    /\ arrivals = EmptyMap
    /\ admitted = EmptyMap
    /\ rl = [c \in Callers |-> IdleCheck]

Init ==
    /\ SnapshotInit /\ GatewayInit /\ LimiterInit /\ HistoryInit /\ RouteInit
    /\ PlayerInit /\ TrackingInit /\ StatsInit

\* Concurrent requests; the war log and the battle logs upstream holds are empty,
\* so that rows differ by clan, member, day and call only.  Only the roster
\* fetch is let fail: a failed war log or battle log fetch leaves the same rows
\* as the empty logs do.
QuietUpstream == [members |-> { [reason |-> "empty"], [items |-> <<mAnn, mBob>>],
                                [items |-> <<mAnn, mNoTag>>], [items |-> <<mBob, mNoName>>] },
                  river |-> [t \in ClanTags |-> { [items |-> <<>>] }],
                  battlelog |-> { [list |-> <<>>] },
                  raises |-> {"members"}]

SnapshotNext ==
    \/ \E c \in Calls, t \in ClanTags : Start(c, t)
    \/ \E c \in Calls : FetchMembers(c, QuietUpstream)
    \/ \E c \in Calls : FetchRiverRace(c, QuietUpstream)
    \/ \E c \in Calls : FetchBattleLog(c, QuietUpstream)
    \/ NextDay

SnapshotSpec == Init /\ [][SnapshotNext]_vars

\* Requests one at a time: a call starts only when no other call is in progress
SeqStart(c, clan_tag) ==
    /\ \A d \in Calls : call[d].pc \in {"idle", "done"}
    /\ Start(c, clan_tag)

SnapshotSeqNext ==
    \/ \E c \in Calls, t \in ClanTags : SeqStart(c, t)
    \/ \E c \in Calls : FetchMembers(c, QuietUpstream)
    \/ \E c \in Calls : FetchRiverRace(c, QuietUpstream)
    \/ \E c \in Calls : FetchBattleLog(c, QuietUpstream)
    \/ NextDay

SnapshotSeqSpec == Init /\ [][SnapshotSeqNext]_vars

\* One request, over every payload upstream may return
FullUpstream == [members |-> MembersPayloads, river |-> RiverRacePayloads,
                 battlelog |-> BattleLogPayloads,
                 raises |-> {"members", "river", "battlelog"}]

SnapshotDataNext ==
    \/ \E t \in ClanTags : Start(1, t)
    \/ FetchMembers(1, FullUpstream)
    \/ FetchRiverRace(1, FullUpstream)
    \/ FetchBattleLog(1, FullUpstream)
    \/ NextDay

SnapshotDataSpec == Init /\ [][SnapshotDataNext]_vars

\* The gateway serving one caller at a time, over every request and response
GatewayNext ==
    \/ \E req \in Requests : GetStart(1, req)
    \/ Upstream1(1, Responses)
    \/ Backoff(1)
    \/ Upstream2(1, Responses)
    \/ CacheWrite(1)
    \/ Tick
    \/ ClearCache

GatewaySpec == Init /\ [][GatewayNext]_vars

\* Concurrent callers of the gateway, over one path requested with the two
\* orders of its params and a few upstream outcomes
ConcRequests == {req \in Requests : req.path = PathClans}
ConcResponses ==
    {r \in Responses : r.kind = "timeout" \/ (r.kind = "response" /\ r.status_code \in {200, 429, 500})}

GatewayConcNext ==
    \/ \E c \in Callers, req \in ConcRequests : GetStart(c, req)
    \/ \E c \in Callers : Upstream1(c, ConcResponses)
    \/ \E c \in Callers : Backoff(c)
    \/ \E c \in Callers : Upstream2(c, ConcResponses)
    \/ \E c \in Callers : CacheWrite(c)
    \/ Tick
    \/ ClearCache

GatewayConcSpec == Init /\ [][GatewayConcNext]_vars

\* Limiter checks one at a time, under both policies
LimiterSeqNext ==
    \/ \E policy \in Policies, identifier \in Identifiers : RateGet(1, policy, identifier)
    \/ RateSetex(1)
    \/ RateIncr(1)
    \/ Tick
    \/ ClearCache

LimiterSeqSpec == Init /\ [][LimiterSeqNext]_vars

\* Concurrent limiter checks, under the policy whose limit is reached soonest
\* (check_rate_limit is the same code over its own key, limit and window)
LimiterNext ==
    \/ \E c \in Callers, identifier \in Identifiers :
            RateGet(c, check_auth_rate_limit, identifier)
    \/ \E c \in Callers : RateSetex(c)
    \/ \E c \in Callers : RateIncr(c)
    \/ Tick
    \/ ClearCache

LimiterSpec == Init /\ [][LimiterNext]_vars

\* One inbound request, arriving while the window of its client is fresh,
\* running or used up
InboundInit ==
    /\ SnapshotInit /\ GatewayInit /\ HistoryInit /\ RouteInit
    /\ PlayerInit /\ TrackingInit /\ StatsInit
    /\ rl = [c \in Callers |-> IdleCheck]
    /\ counters \in {EmptyMap, WindowAt(1), ExhaustedWindow}
    /\ arrivals = [key \in DOMAIN counters |-> counters[key].value]
    /\ admitted = arrivals

InboundResponses ==
    {r \in Responses : r.kind = "timeout" \/ (r.kind = "response" /\ r.status_code \in {200, 404, 429})}

InboundNext ==
    \/ \E route \in Routes : \E in \in RouteInputs(route) : Arrive(1, route, in)
    \/ RouteRateLimit(1)
    \/ RateSetex(1)
    \/ RateIncr(1)
    \/ \E stored \in BOOLEAN : AfterRateLimit(1, stored)
    \/ RouteGet(1)
    \/ Upstream1(1, InboundResponses)
    \/ Backoff(1)
    \/ Upstream2(1, InboundResponses)
    \/ CacheWrite(1)
    \/ RouteReturn(1)

InboundSpec == InboundInit /\ [][InboundNext]_vars

\* One call of a player service function, over what upstream returns
PlayerNext ==
    \/ \E outcome \in GetOutcomes(RosterPayloads), wratio \in Scorers :
          ResolvePlayerByClanTag(outcome, wratio)
    \/ \E outcome \in GetOutcomes(SearchPayloads), wratio \in Scorers, flaky \in FlakySets :
          SearchClans(outcome, wratio, flaky)
    \/ FetchCandidate

PlayerSpec == Init /\ [][PlayerNext]_vars

\* One call of a function that reads a battle log; player.data is the log
\* upstream holds when the call is made
DeckInit ==
    /\ SnapshotInit /\ GatewayInit /\ LimiterInit /\ HistoryInit /\ RouteInit
    /\ TrackingInit /\ StatsInit
    /\ battle_logs = EmptyMap
    /\ player \in {[IdlePlayer EXCEPT !.data = response] : response \in BattleLogResponses}

DeckNext ==
    \/ \E game_mode \in GameModes \cup {"2v2"}, outcome \in GetOutcomes({player.data}) :
          PredictPlayerDecks("#P1", game_mode, outcome)
    \/ \E profile \in GetOutcomes({[name |-> "Ann"], [reason |-> "none"]}),
          outcome \in GetOutcomes({player.data}) :
          GetPlayerStats(profile, outcome)
    \/ \E time_period \in {"week", "month"}, outcome \in GetOutcomes({player.data}) :
          MemberBattleStats(time_period, outcome)

DeckSpec == DeckInit /\ [][DeckNext]_vars

\* Requests for the decks of one player, one after the other, minutes apart,
\* over a few battle logs upstream may hold at the time of a request
TrophyRoadLog ==
    [list |-> << PlayerBattle("trail", <<"Knight", "Zap">>, 3, 1, 1),
                 PlayerBattle("trail", <<"Zap", "Knight">>, 0, 2, 1) >>]
MixedLog ==
    [list |-> << PlayerBattle("trail", <<"Arrows", "Giant">>, 1, 0, 1),
                 PlayerBattle("pathOfLegend", <<"Giant", "Zap">>, 1, 1, 1),
                 PlayerBattle("pathOfLegend", <<"Giant", "Zap">>, 2, 0, 1),
                 PlayerBattle("ladder", <<"Arrows", "Knight">>, 1, 3, 1) >>]
NoTeamLog == [list |-> << [type |-> "trail", battleTime |-> 1] >>]

PredictCacheNext ==
    \/ \E game_mode \in GameModes \cup {"2v2"},
          outcome \in GetOutcomes({TrophyRoadLog, MixedLog, NoTeamLog}) :
          PredictPlayerDecks("#P1", game_mode, outcome)
    \/ PredictReturn
    \/ MinutesPass

PredictCacheSpec == Init /\ [][PredictCacheNext]_vars

\* One request for the statistics of a clan, arriving while Redis holds no
\* clan_stats entry or one stored by an earlier request; any of its fetches
\* may fail
StoredStats ==
    [clan_name |-> "Royals", clan_tag |-> "#C1", members |-> << ZeroStats(mBob) >>,
     time_period |-> "week", is_tracked |-> FALSE, tracking_since |-> NoneValue]

StatsRosters ==
    { [items |-> <<mAnn, mBob>>], [items |-> <<mBob, mAnn>>], [items |-> <<mBob, mNoName>>],
      [items |-> <<mAnn, mNoTag>>], [reason |-> "empty"] }

StatsRaces ==
    { [reason |-> "empty"],
      [items |-> << Race(<< Standing("#C1", << Participant("#P1", 100, 3) >>) >>) >>] }

StatsProfiles == { [lastSeen |-> "20250101T000000.000Z"], [tag |-> "#P1"] }

StatsLogs ==
    { TrophyRoadLog, MixedLog, [dict |-> [reason |-> "none"]],
      [list |-> << PlayerBattle("pathOfLegend", <<"Giant", "Zap">>, 2, 1, -20),
                   [type |-> "trail", team |-> << [crowns |-> 1] >>] >>] }

StatsSpecInit ==
    /\ SnapshotInit /\ LimiterInit /\ HistoryInit /\ RouteInit
    /\ PlayerInit /\ TrackingInit /\ StatsInit
    /\ written = EmptyMap
    /\ gw = [c \in Callers |-> IdleGet]
    /\ cache \in {EmptyMap,
                  RedisSetex(EmptyMap, StatsKey("#C1", "week"), CLAN_STATS_CACHE_TTL,
                             Dumps(StoredStats))}

StatsNext ==
    \/ \E time_period \in {"week", "month", "year"} : StatsStart("#C1", time_period)
    \/ \E outcome \in GetOutcomes(ClanInfoPayloads) : StatsClanInfo(outcome)
    \/ \E outcome \in GetOutcomes(StatsRosters) : StatsMembers(outcome)
    \/ \E outcome \in GetOutcomes(StatsRaces) : StatsRiverRace(outcome)
    \/ \E outcome \in GetOutcomes(StatsProfiles) : StatsPlayer(outcome)
    \/ \E outcome \in GetOutcomes(StatsLogs) : StatsBattleLog(outcome)

StatsSpec == StatsSpecInit /\ [][StatsNext]_vars

\* Every operation that runs over the snapshot table, for one clan on two
\* days: concurrent create_clan_snapshot calls, a get_historical_stats query,
\* a start_tracking_clan request and a get_clan_stats request
StoreUpstream == [members |-> { [items |-> <<mAnn, mBob>>], [items |-> <<mAnn, mNoTag>>] },
                  river |-> [t \in ClanTags |-> { [items |-> <<>>] }],
                  battlelog |-> { [list |-> <<>>] },
                  raises |-> {"members"}]

StoreNext ==
    \/ \E c \in Calls : Start(c, "#C1")
    \/ \E c \in Calls : FetchMembers(c, StoreUpstream)
    \/ \E c \in Calls : FetchRiverRace(c, StoreUpstream)
    \/ \E c \in Calls : FetchBattleLog(c, StoreUpstream)
    \/ NextDay
    \/ GetHistoricalStats("#C1", "week")
    \/ TrackStart(1, "#C1")
    \/ \E outcome \in GetOutcomes({[name |-> "Royals"]}) : TrackInsert(1, outcome)
    \/ \E fails \in BOOLEAN, upstream \in HistoryUpstreams("#C1") :
          TrackSnapshot(1, upstream, fails)
    \/ StatsStart("#C1", "week")
    \/ \E outcome \in GetOutcomes({[name |-> "Royals"]}) : StatsClanInfo(outcome)
    \/ StatsMembers([ok |-> TRUE, data |-> [items |-> <<mAnn>>]])
    \/ StatsRiverRace([ok |-> TRUE, data |-> [items |-> <<>>]])
    \/ StatsPlayer([ok |-> TRUE, data |-> [tag |-> "#P1"]])
    \/ \E outcome \in GetOutcomes({TrophyRoadLog}) : StatsBattleLog(outcome)

StoreSpec == Init /\ [][StoreNext]_vars

\* Concurrent track requests, one per caller, on two days
TrackingNext ==
    \/ \E c \in Callers, clan_tag \in ClanTags : TrackStart(c, clan_tag)
    \/ \E c \in Callers, outcome \in GetOutcomes(ClanInfoPayloads) : TrackInsert(c, outcome)
    \/ \E c \in Callers, fails \in BOOLEAN :
          \E upstream \in HistoryUpstreams(track[c].clan_tag) :
              TrackSnapshot(c, upstream, fails)
    \/ NextDay

TrackingSpec == Init /\ [][TrackingNext]_vars

\* Snapshots on up to MaxSnapshotDays days, then one query.  On a day the
\* first clan is snapshot first; the second clan is always seen in the earlier
\* of the two upstream states.
HistoryNext ==
    \/ \E upstream \in HistoryUpstreams("#C1") : TakeSnapshot("#C1", upstream)
    \/ \E upstream \in {u \in HistoryUpstreams("#C2") : u.members[1] = hAnnEarly} :
            ExistingSnapshot(snapshots, "#C1", day) /\ TakeSnapshot("#C2", upstream)
    \/ \E n \in DayJumps : DaysPass(n)
    \/ \E clan_tag \in ClanTags, time_period \in TimePeriods :
            GetHistoricalStats(clan_tag, time_period)

HistorySpec == Init /\ [][HistoryNext]_vars

(***************************************************************************)
(* Properties of the snapshot store                                        *)
(***************************************************************************)
RowsOfDay(clan_tag, date) ==
    {k \in 1..Len(snapshots) : snapshots[k].clan_tag = clan_tag /\ snapshots[k].snapshot_date = date}

RowsOfKey(clan_tag, player_tag, date) ==
    {k \in RowsOfDay(clan_tag, date) : snapshots[k].player_tag = player_tag}

RowsBy(c) == {k \in 1..Len(snapshots) : snapshots[k].by = c}

\* call d follows, on the same UTC day and for the same clan, a call c that
\* returned True for a non-empty roster
SecondOfDay(c, d) ==
    /\ c < d
    /\ call[c].result = "true" /\ Len(call[c].members) > 0
    /\ call[d].pc # "idle"
    /\ call[d].clan_tag = call[c].clan_tag /\ call[d].today = call[c].today

\* C1: with requests one at a time, a second createSnapshot of the same clan on
\* the same UTC day as a successful first one returns false and adds no row, and
\* the day holds exactly one row per member of the first call's roster.
C1_IdempotentSnapshot ==
    \A c, d \in Calls : SecondOfDay(c, d) =>
        /\ call[d].pc = "done" /\ call[d].result = "false"
        /\ RowsBy(d) = {}
        /\ RowsOfDay(call[c].clan_tag, call[c].today) = RowsBy(c)
        /\ Cardinality(RowsBy(c)) = Len(call[c].members)
        /\ \A m \in 1..Len(call[c].members) :
             Cardinality(RowsOfKey(call[c].clan_tag, call[c].members[m].tag, call[c].today)) = 1

C1_Witness == \E c, d \in Calls : SecondOfDay(c, d) /\ call[d].pc = "done"

\* C2: the table never holds two rows with the same
\* (clan_tag, player_tag, snapshot_date).
C2_UniqueSnapshotKey ==
    \A j, k \in 1..Len(snapshots) :
        ( /\ snapshots[j].clan_tag = snapshots[k].clan_tag
          /\ snapshots[j].player_tag = snapshots[k].player_tag
          /\ snapshots[j].snapshot_date = snapshots[k].snapshot_date ) => j = k

\* C3: two createSnapshot calls for the same clan and the same UTC day never
\* both return true with rows committed.
C3_AtMostOneInserts ==
    \A c, d \in Calls :
        ( /\ c # d
          /\ call[c].clan_tag = call[d].clan_tag /\ call[c].today = call[d].today
          /\ call[c].result = "true" /\ call[d].result = "true" )
        => (RowsBy(c) = {} \/ RowsBy(d) = {})

\* C4: a createSnapshot that failed (roster fetch error, malformed member record,
\* commit failure) returned false, raised nothing, kept no pending row and left
\* no row of its own in the table.
C4_FailureRollsBack ==
    \A c \in Calls : call[c].failed =>
        /\ call[c].pc = "done" /\ call[c].result = "false"
        /\ call[c].pending = <<>>
        /\ RowsBy(c) = {}

\* a call failed after db.add had been called at least once
C4_Witness == \E c \in Calls : call[c].failed /\ call[c].added > 0

(***************************************************************************)
(* Properties of the upstream gateway                                      *)
(***************************************************************************)
\* this step is caller c entering get
StartStep(c) == gw[c].pc \in {"idle", "done"} /\ gw'[c] # gw[c]

\* this step is caller c storing a successful response and returning
WriteStep(c) == gw[c].pc = "write" /\ gw'[c].pc = "done"

Is429(response) == response.kind = "response" /\ response.status_code = 429

FinalResponse(cr) == cr.responses[Len(cr.responses)]

Returned(cr, data) == cr.pc = "done" /\ cr.outcome = [kind |-> "return", data |-> data]

Raised(cr, status_code, detail) ==
    cr.pc = "done"
    /\ cr.outcome = [kind |-> "raise", status_code |-> status_code, detail |-> detail]

\* C5: a get that finds its key in the cache returns the payload cached there,
\* calls upstream zero times, writes the cache zero times and leaves it unchanged.
C5_HitServedFromCache ==
    [][\A c \in Callers :
        (StartStep(c) /\ gw'[c].cache_key \in DOMAIN cache) =>
            /\ Returned(gw'[c], Loads(cache[gw'[c].cache_key].value))
            /\ gw'[c].upstream_calls = 0
            /\ gw'[c].cache_writes = 0
            /\ cache' = cache]_vars

C5_Witness ==
    \E c \in Callers : gw[c].pc = "done" /\ gw[c].cached # NoneValue /\ gw[c].cache_key \in DOMAIN cache

\* C6: a miss whose upstream call succeeds writes the cache exactly once, storing
\* the payload it returns under the request's key with a time to live of 300
\* seconds; a later get of the same path and params made less than 300 seconds
\* after that write (the cache not cleared since) is a hit returning that payload.
C6_MissStoresThenHits ==
    [][\A c \in Callers :
        /\ WriteStep(c) =>
            /\ gw[c].data = Loads(FinalResponse(gw[c]).text)
            /\ Returned(gw'[c], gw[c].data)
            /\ gw'[c].cache_writes = 1
            /\ DOMAIN cache' = DOMAIN cache \cup {gw[c].cache_key}
            /\ cache'[gw[c].cache_key] = [value |-> Dumps(gw[c].data), ttl |-> 300]
            /\ \A k \in DOMAIN cache \ {gw[c].cache_key} : cache'[k] = cache[k]
        /\ ( /\ gw'[c].pc = "done" /\ gw'[c] # gw[c]
             /\ gw'[c].outcome.kind = "return" /\ gw'[c].cached = NoneValue ) =>
            WriteStep(c)
        /\ StartStep(c) =>
            \A k \in DOMAIN written :
                (written[k].path = gw'[c].path /\ written[k].params = gw'[c].params) =>
                    /\ gw'[c].cached # NoneValue
                    /\ Returned(gw'[c], written[k].data)
                    /\ gw'[c].upstream_calls = 0]_vars

\* a hit on an entry written TickStep seconds earlier
C6_Witness ==
    \E c \in Callers :
        /\ gw[c].pc = "done" /\ gw[c].cached # NoneValue
        /\ gw[c].cache_key \in DOMAIN written
        /\ written[gw[c].cache_key].age > 0
        /\ gw[c].outcome.data = written[gw[c].cache_key].data

\* C7: a get that ends in failure has written no cache entry, and the step that
\* fails leaves the cache as it was.
C7_FailureNeverWrites ==
    [][\A c \in Callers :
        (gw'[c].pc = "done" /\ gw'[c].outcome.kind = "raise") =>
            /\ gw'[c].cache_writes = 0
            /\ gw'[c] # gw[c] => cache' = cache]_vars

\* a get failed on its retry while the cache held an entry
C7_Witness ==
    \E c \in Callers :
        /\ gw[c].pc = "done" /\ gw[c].outcome.kind = "raise"
        /\ gw[c].upstream_calls = 2 /\ DOMAIN cache # {}

\* C8: one get makes at most two upstream calls and sleeps at most once; a second
\* call is made only after a 429 on the first, which is always followed by one
\* backoff and one retry; a 429 on the retry ends the get with an error of
\* status 429; any other first outcome is never retried.
C8_BoundedRetry ==
    \A c \in Callers :
        LET cr == gw[c]
            n == Len(cr.responses)
        IN  /\ cr.upstream_calls = n /\ n <= 2 /\ cr.sleeps <= 1
            /\ cr.pc = "call2" => (n = 1 /\ cr.sleeps = 1)
            /\ n = 2 => (Is429(cr.responses[1]) /\ cr.sleeps = 1)
            /\ (n >= 1 /\ ~Is429(cr.responses[1])) =>
                   (n = 1 /\ cr.sleeps = 0 /\ cr.pc \in {"write", "done"})
            /\ (n = 1 /\ Is429(cr.responses[1])) => cr.pc \in {"backoff", "call2"}
            /\ (n = 2 /\ Is429(cr.responses[2])) =>
                   Raised(cr, 429, cr.responses[2].text)

C8_Witness ==
    \E c \in Callers : Len(gw[c].responses) = 2 /\ Is429(gw[c].responses[2]) /\ gw[c].pc = "done"

\* the error a final upstream outcome maps to; hasClan and hasPlayer say whether
\* the path counts as containing "clan", "player"
MappedError(cr, final, hasClan, hasPlayer) ==
    IF final.kind = "timeout" THEN Raised(cr, 504, MsgTimeout)
    ELSE IF final.kind = "connect_error" THEN Raised(cr, 503, MsgConnect)
    ELSE IF final.status_code = 404
         THEN Raised(cr, 404, IF hasClan THEN MsgClan ELSE IF hasPlayer THEN MsgPlayer
                               ELSE MsgResource)
    ELSE IF final.status_code = 403 THEN Raised(cr, 403, MsgDenied)
    ELSE IF final.status_code >= 400 THEN Raised(cr, final.status_code, final.text)
    ELSE cr.outcome.kind = "return"

\* C9: a finished get that called upstream ended with the error kind of its final
\* upstream outcome, first or retried: 404 NotFound with the clan message if the
\* path contains "clan", else the player message if it contains "player", else
\* the generic one; 403 AuthDenied; timeout 504; connection failure 503; any
\* other error status UpstreamError with that status and body.
C9_ErrorMapping ==
    \A c \in Callers :
        (gw[c].pc = "done" /\ Len(gw[c].responses) >= 1) =>
            MappedError(gw[c], FinalResponse(gw[c]),
                        Contains(StrClan, gw[c].path), Contains(StrPlayer, gw[c].path))

\* The same mapping with "contains" taken without regard to letter case
ErrorMappingIgnoringCase ==
    \A c \in Callers :
        (gw[c].pc = "done" /\ Len(gw[c].responses) >= 1) =>
            MappedError(gw[c], FinalResponse(gw[c]),
                        Contains(StrClan, Lower(gw[c].path)),
                        Contains(StrPlayer, Lower(gw[c].path)))

\* two params are semantically equal: both None, or dicts with the same items
SameParams(p, q) ==
    \/ "none" \in DOMAIN p /\ "none" \in DOMAIN q
    \/ /\ "dict" \in DOMAIN p /\ "dict" \in DOMAIN q
       /\ {p.dict[k] : k \in 1..Len(p.dict)} = {q.dict[k] : k \in 1..Len(q.dict)}

\* C10: a get whose path and params are semantically equal to those of an entry
\* stored earlier and still alive has the same cache key and is a hit.
C10_CacheKeyStability ==
    [][\A c \in Callers :
        StartStep(c) =>
            \A k \in DOMAIN written :
                (written[k].path = gw'[c].path /\ SameParams(written[k].params, gw'[c].params)) =>
                    (gw'[c].cache_key = k /\ gw'[c].cached # NoneValue)]_vars

(***************************************************************************)
(* Properties of the rate limiter                                          *)
(***************************************************************************)
\* this step decides a check of caller c
DecidedStep(c) == rl'[c].pc = "done" /\ rl'[c] # rl[c]

\* C11: with general checks one at a time, the nth check decided on a key since
\* the key was created is admitted and leaves the counter at n for n = 1..100,
\* the 101st is denied and leaves the counter alone, and a check decided when
\* the key is absent (never set, or expired) is admitted with the counter at 1.
C11_LimitBoundary ==
    [][\A c \in Callers :
        (DecidedStep(c) /\ rl'[c].policy = "general") =>
            LET key == rl'[c].key
                n == rl'[c].nth
            IN  /\ n <= 100 => (rl'[c].result = "true" /\ counters'[key].value = n)
                /\ n > 100 => (rl'[c].result = "false" /\ counters' = counters)
                /\ key \notin DOMAIN counters =>
                       (n = 1 /\ rl'[c].result = "true" /\ counters'[key].value = 1)]_vars

\* the 101st check of a window was denied
C11_Witness ==
    \E c \in Callers :
        /\ rl[c].pc = "done" /\ rl[c].policy = "general"
        /\ rl[c].nth = 101 /\ rl[c].result = "false"

\* C12: no counter in the store exceeds the limit of its policy.
C12_CounterWithinLimit ==
    \A policy \in Policies, identifier \in Identifiers :
        LET key == LimiterKey(policy, identifier)
        IN  key \in DOMAIN counters => counters[key].value <= policy.limit

\* identifiers a client may present, chosen to resemble the keys
SpoofedIdentifiers ==
    Identifiers \cup {"", "ratelimit:10.0.0.1", "auth_ratelimit:10.0.0.1", "auth_"}

\* C13: no general key equals an authentication key, whatever the identifiers;
\* a step of a check under one policy neither uses nor changes a counter of the
\* other policy; and a denial is decided on the check's own counter at its limit.
C13_DisjointNamespaces ==
    [][\A c \in Callers : rl'[c] # rl[c] =>
        LET mine == PolicyOf(rl'[c].policy)
        IN  /\ \A i, j \in SpoofedIdentifiers :
                 LimiterKey(check_rate_limit, i) # LimiterKey(check_auth_rate_limit, j)
            /\ \A other \in Policies \ {mine}, i \in Identifiers :
                 LET k == LimiterKey(other, i)
                 IN  /\ rl'[c].key # k
                     /\ (k \in DOMAIN counters') = (k \in DOMAIN counters)
                     /\ k \in DOMAIN counters => counters'[k] = counters[k]
            /\ (DecidedStep(c) /\ rl'[c].result = "false") =>
                 /\ \E i \in Identifiers : rl'[c].key = LimiterKey(mine, i)
                 /\ counters[rl'[c].key].value >= mine.limit]_vars

\* a general check was admitted while the authentication counter of the same
\* identifier stood at its limit
C13_Witness ==
    \E c \in Callers :
        /\ rl[c].pc = "done" /\ rl[c].policy = "general" /\ rl[c].result = "true"
        /\ LimiterKey(check_auth_rate_limit, ClientIp) \in DOMAIN counters
        /\ counters[LimiterKey(check_auth_rate_limit, ClientIp)].value = AUTH_RATE_LIMIT

(***************************************************************************)
(* Properties of get_historical_stats                                      *)
(***************************************************************************)
\* the entries of a finished query that returned a list
Entries == IF hist.result = NoneValue THEN <<>> ELSE hist.result.list

\* the row of today that entry n was made from
LatestOf(n) == snapshots[hist.latest_snapshots[n]]

\* the rows a baseline for (clan, member) may be taken from: dated within the
\* period and before today
InRange(clan_tag, player_tag) ==
    {k \in 1..Len(snapshots) :
        /\ snapshots[k].clan_tag = clan_tag /\ snapshots[k].player_tag = player_tag
        /\ snapshots[k].snapshot_date >= hist.today - DaysAgo(hist.time_period)
        /\ snapshots[k].snapshot_date < hist.today}

DeltaFields ==
    { <<"donations", "donations_given">>, <<"donations_received", "donations_received">>,
      <<"war_attacks", "war_attacks">>, <<"medals", "medals">>, <<"battles", "battles">>,
      <<"wins", "wins">>, <<"losses", "losses">> }

\* C15: a finished query returned None exactly when the table holds no row of
\* its clan dated today, and otherwise one entry for each such row.
C15_NoneIffNoSnapshotToday ==
    hist.pc = "done" =>
        LET rows == RowsOfDay(hist.clan_tag, hist.today)
        IN  /\ (hist.result = NoneValue) = (rows = {})
            /\ hist.today = day
            /\ Len(Entries) = Cardinality(rows)
            /\ {hist.latest_snapshots[n] : n \in 1..Len(Entries)} = rows
            /\ \A n \in 1..Len(Entries) : Entries[n].tag = LatestOf(n).player_tag

\* a query returned None while the table held older rows of its clan
C15_Witness ==
    /\ hist.pc = "done" /\ hist.result = NoneValue
    /\ \E k \in 1..Len(snapshots) :
         snapshots[k].clan_tag = hist.clan_tag /\ snapshots[k].snapshot_date < hist.today

\* C16: the baseline used for a member is a row of that member and clan dated
\* within the period and before today, and no such row is dated earlier.
C16_BaselineIsEarliest ==
    hist.pc = "done" =>
        \A tag \in DOMAIN hist.old_lookup :
            LET old == hist.old_lookup[tag]
            IN  /\ \E k \in InRange(hist.clan_tag, tag) : snapshots[k] = old
                /\ \A k \in InRange(hist.clan_tag, tag) :
                       old.snapshot_date <= snapshots[k].snapshot_date

\* C17: each of the seven deltas of an entry is today's value minus the value of
\* one baseline row of the member in range, the same for the seven, and
\* today's value itself when the member has no row in range.
C17_DeltaOrVerbatim ==
    hist.pc = "done" =>
        \A n \in 1..Len(Entries) :
            LET latest == LatestOf(n)
                range == InRange(hist.clan_tag, latest.player_tag)
            IN  IF range = {}
                THEN \A f \in DeltaFields : Entries[n][f[1]] = latest[f[2]]
                ELSE \E k \in range : \A f \in DeltaFields :
                        Entries[n][f[1]] = latest[f[2]] - snapshots[k][f[2]]

\* today 50 donations and 2 wins against a baseline of 20 and 1 give 30 and 1,
\* and a member without baseline is reported with today's values
C17_Witness ==
    /\ hist.pc = "done"
    /\ \E n \in 1..Len(Entries) :
         /\ LatestOf(n).donations_given = 50
         /\ Entries[n].donations = 30 /\ Entries[n].wins = 1
    /\ \E n \in 1..Len(Entries) :
         /\ InRange(hist.clan_tag, LatestOf(n).player_tag) = {}
         /\ Entries[n].donations = 3

\* C18: the total_war_attacks of an entry is that of today's row.
C18_TotalWarAttacksNotDelta ==
    hist.pc = "done" =>
        \A n \in 1..Len(Entries) :
            Entries[n].total_war_attacks = LatestOf(n).total_war_attacks

\* an entry with a baseline whose total_war_attacks is not zero
C18_Witness ==
    /\ hist.pc = "done"
    /\ \E n \in 1..Len(Entries) :
         /\ Entries[n].tag \in DOMAIN hist.old_lookup
         /\ hist.old_lookup[Entries[n].tag].total_war_attacks > 0
         /\ Entries[n].total_war_attacks = 8

(***************************************************************************)
(* Properties of the rows create_clan_snapshot builds                      *)
(***************************************************************************)
\* the war periods, among the 5 most recent, in which the member is listed under
\* the clan at least once
PeriodsCounted(river_race, clan_tag, member_tag) ==
    LET races == LastRaces(river_race)
    IN  {k \in 1..Len(races) :
            \E n \in 1..Len(RaceParticipants(races[k], clan_tag)) :
                Get(RaceParticipants(races[k], clan_tag)[n], "tag", "None") = member_tag}

\* C19: the total_war_attacks of every row, built or committed, is a multiple of
\* 4 and at most 20, and that of a row being built is 4 times the number of
\* war periods, among the 5 most recent of the log, that list the member.
C19_TotalIsFourPerPeriod ==
    /\ \A k \in 1..Len(snapshots) :
         snapshots[k].total_war_attacks % 4 = 0 /\ snapshots[k].total_war_attacks <= 20
    /\ \A c \in Calls : \A n \in 1..Len(call[c].pending) :
         LET row == call[c].pending[n]
         IN  /\ row.total_war_attacks <= 20
             /\ row.total_war_attacks =
                  4 * Cardinality(PeriodsCounted(call[c].river_race, row.clan_tag, row.player_tag))

\* the rows call c committed, in insert order
CommittedBy(c) == SelectSeq(snapshots, LAMBDA row : row.by = c)

\* C20: a call whose war log fetch or some battle log fetch raised, and in
\* which nothing else raised (roster fetch, malformed member, commit), returned
\* True and committed one row per roster member, in roster order, with battles,
\* wins and losses 0 for the members whose battle log fetch raised and medals
\* and war attacks 0 for every member when the war log fetch raised.
C20_FetchFailuresTolerated ==
    \A c \in Calls :
        ( /\ call[c].pc = "done"
          /\ call[c].river_failed \/ call[c].battle_failed # {}
          /\ call[c].cause = "none" ) =>
            LET rows == CommittedBy(c)
                members == call[c].members
            IN  /\ call[c].result = "true" /\ ~call[c].failed
                /\ Len(rows) = Len(members)
                /\ \A n \in 1..Len(rows) :
                     /\ rows[n].player_tag = members[n].tag
                     /\ n \in call[c].battle_failed =>
                          (rows[n].battles = 0 /\ rows[n].wins = 0 /\ rows[n].losses = 0)
                     /\ call[c].river_failed =>
                          ( /\ rows[n].medals = 0 /\ rows[n].war_attacks = 0
                            /\ rows[n].total_war_attacks = 0 )

\* the war log fetch and the battle log fetch of one of two members raised, the
\* other member's battle log was read, and the call returned True
C20_Witness ==
    \E c \in Calls :
        /\ call[c].pc = "done" /\ call[c].result = "true"
        /\ call[c].river_failed /\ Cardinality(call[c].battle_failed) = 1
        /\ Len(CommittedBy(c)) = 2
        /\ \E n \in 1..2 : CommittedBy(c)[n].battles > 0

(***************************************************************************)
(* Properties of the inbound routes                                        *)
(***************************************************************************)
\* C14: a request for which an upstream call was made or a cache entry
\* written had been checked and admitted by the rate limiter, and a request
\* answered 400 or 429 made no upstream call.
C14_AdmittedBeforeUpstream ==
    \A c \in Callers :
        /\ (gw[c].upstream_calls > 0 \/ gw[c].cache_writes > 0) =>
               inbound[c].limiter = "admitted"
        /\ inbound[c].status_code \in {400, 429} => gw[c].upstream_calls = 0

(***************************************************************************)
(* Properties of player resolution                                         *)
(***************************************************************************)
MaxOf(S) == CHOOSE x \in S : \A y \in S : y <= x

\* the highest score among the names of a roster
BestScore(members, wratio) == MaxOf({wratio[members[k].name] : k \in 1..Len(members)})

\* the answers that name a member of the roster whose name has the highest score
BestMatches(members, wratio) ==
    { [ok |-> TRUE, player_tag |-> members[k].tag, name |-> members[k].name,
       confidence |-> BestScore(members, wratio) \div 100] :
          k \in {j \in 1..Len(members) :
                    /\ "tag" \in DOMAIN members[j]
                    /\ wratio[members[j].name] = BestScore(members, wratio)} }

NotFound == [ok |-> FALSE, status_code |-> 404]

ResolvedByTag ==
    /\ player.pc = "done"
    /\ player.fn = "resolve_player_by_clan_tag"
    /\ player.data # NoneValue
    /\ \A k \in 1..Len(Get(player.data, "items", <<>>)) : "tag" \in DOMAIN player.data.items[k]

\* C21: resolution by clan tag fails NotFound on an empty roster and on a best
\* score below 70 (69 and 69.99 included), and on a best score of 70 or more
\* returns the tag and name of a member whose name has the best score, with
\* the integer part of that score.
C21_AcceptsAtSeventy ==
    ResolvedByTag =>
        LET members == Get(player.data, "items", <<>>)
        IN  IF Len(members) = 0 THEN player.result = NotFound
            ELSE IF BestScore(members, player.wratio) < 7000 THEN player.result = NotFound
            ELSE player.result \in BestMatches(members, player.wratio)

C21_Witness ==
    /\ ResolvedByTag
    /\ Len(Get(player.data, "items", <<>>)) > 1
    /\ BestScore(player.data.items, player.wratio) = 7000
    /\ player.result.ok
    /\ player.result.confidence = 70

\* the candidate clans whose roster upstream gives and holds a match
Yielding ==
    {k \in 1..Len(player.clans) :
        LET members == ClanDirectory(player.clans[k].tag).items
        IN  /\ player.clans[k].tag \notin player.flaky
            /\ Len(members) > 0
            /\ BestScore(members, player.wratio) >= 7000
            /\ BestMatches(members, player.wratio) # {}}

CandidateTags(n) == [k \in 1..n |-> player.clans[k].tag]

\* C22: resolution by clan name asks for the rosters in the order of the
\* search response, up to and including the first clan that yields a match,
\* whose match it returns; a clan whose roster fetch fails is passed over;
\* it fails NotFound only when it asked every clan and none yields a match.
C22_FirstMatchingClan ==
    /\ player.pc = "loop" =>
          /\ player.fetched = CandidateTags(player.i - 1)
          /\ \A k \in Yielding : k >= player.i
    /\ (player.pc = "done" /\ player.fn = "resolve_player_by_clan_name"
            /\ Len(player.clans) > 0) =>
          IF Yielding = {}
          THEN player.result = NotFound /\ player.fetched = CandidateTags(Len(player.clans))
          ELSE LET first == CHOOSE k \in Yielding : \A j \in Yielding : k <= j
               IN  /\ player.fetched = CandidateTags(first)
                   /\ player.result \in
                         BestMatches(ClanDirectory(player.clans[first].tag).items,
                                     player.wratio)

C22_Witness ==
    /\ player.pc = "done"
    /\ player.fn = "resolve_player_by_clan_name"
    /\ player.result.ok
    /\ Len(player.fetched) = 2
    /\ Len(player.clans) = 3
    /\ player.fetched[1] \in player.flaky

\* C23: resolution by clan name asks for at most 10 rosters and makes at most
\* 11 api_service.get calls.
C23_AtMostElevenCalls ==
    player.fn = "resolve_player_by_clan_name" =>
        /\ Len(player.fetched) <= SearchLimit
        /\ player.calls <= SearchLimit + 1

(***************************************************************************)
(* Properties of canon, the tallies and the deck ranker                    *)
(***************************************************************************)
\* the multiset of the members of a sequence
BagOf(seq) ==
    [x \in {seq[k] : k \in 1..Len(seq)} |-> Cardinality({k \in 1..Len(seq) : seq[k] = x})]

CardNames(b) == [k \in 1..Len(b.team[1].cards) |-> b.team[1].cards[k].name]

\* the battles among those kept whose own deck has the card names of deck
BattlesWith(deck) ==
    {k \in 1..Len(player.battles) :
        Countable(player.battles[k]) /\ BagOf(CardNames(player.battles[k])) = BagOf(deck)}

Counted == {k \in 1..Len(player.battles) : Countable(player.battles[k])}

Ranked ==
    /\ player.pc = "done"
    /\ player.fn \in {"predict_player_decks", "get_player_stats"}
    /\ player.result.ok

\* the decks returned
Top ==
    IF player.fn = "predict_player_decks" THEN player.result.top3
    ELSE player.result.top_decks

\* C24: the decks counted are sorted card lists, and battles whose card lists
\* hold the same multiset of names, in any order, are counted under one deck.
C24_CanonOrderIndependent ==
    Ranked =>
        /\ \A k \in 1..Len(player.counts) :
              LET deck == player.counts[k].deck
              IN  /\ \A m \in 1..(Len(deck) - 1) : CardRank(deck[m]) <= CardRank(deck[m + 1])
                  /\ player.counts[k].n = Cardinality(BattlesWith(deck))
        /\ \A k \in Counted :
              \E m \in 1..Len(player.counts) :
                  /\ BagOf(player.counts[m].deck) = BagOf(CardNames(player.battles[k]))
                  /\ \A o \in 1..Len(player.counts) :
                        BagOf(player.counts[o].deck) = BagOf(player.counts[m].deck) => o = m

C24_Witness ==
    /\ Ranked
    /\ \E k, m \in Counted :
          /\ CardNames(player.battles[k]) # CardNames(player.battles[m])
          /\ BagOf(CardNames(player.battles[k])) = BagOf(CardNames(player.battles[m]))

Competitive == {"pathOfLegend", "ladder", "challenge", "tournament"}

Crowns(side) == Get(side[1], "crowns", 0)

\* a battle with team[0], a competitive mode tag and both sides present
Eligible(b) ==
    /\ "team" \in DOMAIN b /\ Len(b.team) > 0
    /\ Get(b, "type", "None") \in Competitive
    /\ "opponent" \in DOMAIN b /\ Len(b.opponent) > 0

\* C25: the wins of get_player_stats are the eligible battles with more own
\* crowns, its losses the eligible battles with more opponent crowns, so
\* wins + losses is at most the number of eligible battles.
C25_WinLossOverEligible ==
    (player.pc = "done" /\ player.fn = "get_player_stats" /\ player.result.ok) =>
        LET battles == BattlesOf(player.data)
            eligible == {k \in 1..Len(battles) : Eligible(battles[k])}
        IN  /\ player.result.wins =
                  Cardinality({k \in eligible :
                      Crowns(battles[k].team) > Crowns(battles[k].opponent)})
            /\ player.result.losses =
                  Cardinality({k \in eligible :
                      Crowns(battles[k].opponent) > Crowns(battles[k].team)})
            /\ player.result.wins + player.result.losses <= Cardinality(eligible)

MemberStatsDone ==
    player.pc = "done" /\ player.fn = "get_clan_stats" /\ player.data # NoneValue

\* the battles kept that have the mode tag and team[0]
OfMode(battle_type) ==
    {k \in 1..Len(player.battles) :
        /\ Get(player.battles[k], "type", "None") = battle_type
        /\ "team" \in DOMAIN player.battles[k] /\ Len(player.battles[k].team) > 0}

OpponentCrowns(b) ==
    IF "opponent" \in DOMAIN b /\ Len(b.opponent) > 0 THEN Crowns(b.opponent) ELSE 0

OwnCrowns(k) == Crowns(player.battles[k].team)

\* the own crowns of the battles numbered in S
RECURSIVE SumOwnCrowns(_)
SumOwnCrowns(S) ==
    IF S = {} THEN 0
    ELSE LET k == CHOOSE j \in S : TRUE IN OwnCrowns(k) + SumOwnCrowns(S \ {k})

ModeTallies(tally, battle_type) ==
    /\ tally.battles = Cardinality(OfMode(battle_type))
    /\ tally.wins = Cardinality({k \in OfMode(battle_type) :
                        OwnCrowns(k) > OpponentCrowns(player.battles[k])})
    /\ tally.losses = Cardinality({k \in OfMode(battle_type) :
                          OpponentCrowns(player.battles[k]) > OwnCrowns(k)})
    /\ tally.wins + tally.losses <= tally.battles

\* C26: the mode statistics count the battles of exactly the mode tag that
\* have team[0], draws included; wins + losses <= battles; avg_crowns is the
\* own crowns over battles rounded to two decimals, and 0.0 for no battles.
C26_ModeStatsRounded ==
    MemberStatsDone =>
        \A m \in {[stats |-> player.result.ranked, type |-> "pathOfLegend"],
                  [stats |-> player.result.ladder, type |-> "trail"]} :
            /\ ModeTallies(m.stats, m.type)
            /\ IF m.stats.battles = 0 THEN m.stats.avg_crowns = 0
               ELSE LET exact == 100 * SumOwnCrowns(OfMode(m.type))
                        got == m.stats.avg_crowns * m.stats.battles
                    IN  2 * (IF exact > got THEN exact - got ELSE got - exact)
                            <= m.stats.battles

C26_Witness ==
    /\ MemberStatsDone
    /\ player.result.ranked.battles = 3
    /\ player.result.ranked.wins + player.result.ranked.losses < 3
    /\ player.result.ranked.avg_crowns = 133
    /\ player.result.ladder.battles = 0
    /\ player.result.ladder.avg_crowns = 0

\* C26 as stated: avg_crowns is exactly the own crowns over battles.
C26_ExactMean ==
    MemberStatsDone =>
        \A m \in {[stats |-> player.result.ranked, type |-> "pathOfLegend"],
                  [stats |-> player.result.ladder, type |-> "trail"]} :
            /\ ModeTallies(m.stats, m.type)
            /\ IF m.stats.battles = 0 THEN m.stats.avg_crowns = 0
               ELSE m.stats.avg_crowns * m.stats.battles =
                       100 * SumOwnCrowns(OfMode(m.type))

FirstAt(deck) == CHOOSE k \in BattlesWith(deck) : \A j \in BattlesWith(deck) : k <= j

\* a deck that is ahead of another in the ranking: more battles, or as many
\* and met first
Ahead(d, e) ==
    \/ Cardinality(BattlesWith(d)) > Cardinality(BattlesWith(e))
    \/ /\ Cardinality(BattlesWith(d)) = Cardinality(BattlesWith(e))
       /\ FirstAt(d) < FirstAt(e)

DecksCounted == {CardNames(player.battles[k]) : k \in Counted}

InTop(deck) == \E k \in 1..Len(Top) : BagOf(Top[k].deck) = BagOf(deck)

\* C27: at most 3 decks are returned, all of them when there are fewer; each
\* is ahead of the next, by count and then by first occurrence among the
\* battles; a deck not returned has no more battles than any returned one.
C27_TopThreeStable ==
    Ranked =>
        /\ Len(Top) <= 3
        /\ Len(Top) = Min(3, Cardinality({BagOf(d) : d \in DecksCounted}))
        /\ \A k \in 1..Len(Top) : BattlesWith(Top[k].deck) # {}
        /\ \A k \in 1..(Len(Top) - 1) : Ahead(Top[k].deck, Top[k + 1].deck)
        /\ \A d \in DecksCounted :
              ~InTop(d) =>
                  \A k \in 1..Len(Top) :
                      Cardinality(BattlesWith(d)) <= Cardinality(BattlesWith(Top[k].deck))

C27_Witness ==
    /\ Ranked
    /\ Len(Top) = 3
    /\ \E d \in DecksCounted : ~InTop(d)
    /\ Cardinality(BattlesWith(Top[1].deck)) = Cardinality(BattlesWith(Top[2].deck))

\* C28: each confidence of a non-empty result is the deck's count over the
\* count of all counted battles, rounded to two decimals; the counts of all
\* decks sum to that denominator, those of the decks returned to no more;
\* the confidences descend.
C28_ConfidenceOverAllCounts ==
    (Ranked /\ Len(Top) > 0) =>
        LET total == Cardinality(Counted)
        IN  /\ SumSeq([k \in 1..Len(player.counts) |-> player.counts[k].n]) = total
            /\ SumSeq([k \in 1..Len(Top) |-> Cardinality(BattlesWith(Top[k].deck))]) <= total
            /\ \A k \in 1..Len(Top) :
                  LET exact == 100 * Cardinality(BattlesWith(Top[k].deck))
                      got == Top[k].confidence * total
                  IN  2 * (IF exact > got THEN exact - got ELSE got - exact) <= total
            /\ \A k \in 1..(Len(Top) - 1) : Top[k].confidence >= Top[k + 1].confidence

C28_Witness ==
    /\ Ranked
    /\ Len(Top) = 3
    /\ Cardinality(Counted) = 4
    /\ Top[1].confidence = 25

\* C29: when the battles of a valid game mode were fetched and none yields a
\* countable deck, predict_player_decks returns an empty top-3 list.
C29_EmptyTopNoError ==
    (/\ player.pc = "done" /\ player.fn = "predict_player_decks"
     /\ player.mode \in GameModes /\ player.data # NoneValue
     /\ Len(player.counts) = 0) =>
        player.result.ok /\ player.result.top3 = <<>>

(***************************************************************************)
(* Properties of clan tracking                                             *)
(***************************************************************************)
\* a step in which start_tracking_clan is entered for a clan that has a row
RetrackStep(c) ==
    /\ track[c].pc = "idle"
    /\ track'[c].pc # "idle"
    /\ TrackedRow(tracked_clans, track'[c].clan_tag) # NoneValue

\* C30: a track request for a clan that has a row returns that row's tag,
\* name and start, with no upstream call, and leaves the tracked_clans and
\* snapshot tables as they are; and no step leaves two rows of one clan_tag.
C30_TrackIdempotent ==
    [][/\ \A c \in Callers :
             RetrackStep(c) =>
                LET tracked == TrackedRow(tracked_clans, track'[c].clan_tag)
                IN  /\ tracked_clans' = tracked_clans
                    /\ snapshots' = snapshots
                    /\ track'[c].pc = "done"
                    /\ track'[c].calls = 0
                    /\ track'[c].result.ok
                    /\ track'[c].result.clan_tag = tracked.clan_tag
                    /\ track'[c].result.clan_name = tracked.clan_name
                    /\ track'[c].result.tracking_started = tracked.tracking_started
                    /\ ~track'[c].result.snapshot_created
       /\ \A k, j \in 1..Len(tracked_clans') :
             tracked_clans'[k].clan_tag = tracked_clans'[j].clan_tag => k = j]_vars

C30_Witness ==
    /\ Len(tracked_clans) = 1
    /\ \E c, d \in Callers :
          /\ track[c].pc = "done" /\ track[c].result.ok /\ track[c].result.snapshot_created
          /\ track[d].pc = "done" /\ track[d].result.ok /\ ~track[d].result.snapshot_created
          /\ track[d].calls = 0
          /\ track[d].clan_tag = track[c].clan_tag
          /\ track[d].result.tracking_started < day

(***************************************************************************)
(* Properties of the member entries of get_clan_stats                      *)
(***************************************************************************)

\* C39: in a member entry the per-mode tallies stay within the overall ones:
\* ranked_wins + ladder_wins <= wins, ranked_losses + ladder_losses <= losses
\* and ranked_battles + ladder_battles <= battles.
C39_ModeTalliesWithinOverall ==
    MemberStatsDone =>
        /\ player.result.ranked.wins + player.result.ladder.wins <= player.result.wins
        /\ player.result.ranked.losses + player.result.ladder.losses <= player.result.losses
        /\ player.result.ranked.battles + player.result.ladder.battles
              <= player.result.battles

\* the battles of the two modes are among the battles of the entry
ModeBattlesWithinOverall ==
    MemberStatsDone =>
        player.result.ranked.battles + player.result.ladder.battles
            <= player.result.battles

(***************************************************************************)
(* Order of effects within one gateway get                                 *)
(***************************************************************************)

\* the effects call c of the gateway has had so far
Effects(cr) == <<cr.cache_reads, cr.upstream_calls, cr.cache_writes>>

\* C33: within one get the cache is read exactly once, at entry and before any
\* upstream call; upstream calls follow the read and precede the write; no
\* step reads the cache once an upstream call was issued, and the write ends
\* the get.
C33_ReadThenCallThenWrite ==
    [][\A c \in Callers :
          /\ gw'[c].pc # "idle" => gw'[c].cache_reads = 1
          /\ gw'[c].cache_reads # gw[c].cache_reads =>
                /\ gw[c].pc \in {"idle", "done"}
                /\ gw'[c].upstream_calls = 0 /\ gw'[c].cache_writes = 0
          /\ gw'[c].upstream_calls > 0 => gw'[c].cached = NoneValue
          /\ (gw[c].upstream_calls > 0 /\ gw'[c].upstream_calls > 0) =>
                gw'[c].cache_reads = gw[c].cache_reads
          /\ gw'[c].upstream_calls > gw[c].upstream_calls =>
                gw[c].cache_reads = 1 /\ gw[c].cache_writes = 0 /\ gw'[c].cache_writes = 0
          /\ gw'[c].cache_writes > gw[c].cache_writes =>
                /\ gw[c].upstream_calls >= 1
                /\ gw'[c].upstream_calls = gw[c].upstream_calls
                /\ gw'[c].cache_writes = 1 /\ gw'[c].pc = "done"]_vars

\* a get that read, called upstream twice and wrote, while another caller's
\* write of the same key landed in between
C33_Witness ==
    \E c, d \in Callers :
        /\ c # d
        /\ gw[c].pc = "done" /\ Effects(gw[c]) = <<1, 2, 1>>
        /\ gw[d].pc = "done" /\ Effects(gw[d]) = <<1, 1, 1>>
        /\ gw[c].cache_key = gw[d].cache_key

(***************************************************************************)
(* Properties of the limiter under interleaved checks                      *)
(***************************************************************************)

\* C34: the checks admitted on a key since the key was created (one window)
\* never number more than the limit of its policy.
C34_AdmittedWithinLimit ==
    \A policy \in Policies, identifier \in Identifiers :
        LET key == LimiterKey(policy, identifier)
        IN  key \in DOMAIN admitted => admitted[key] <= policy.limit

\* C35: every counter key in the store carries an expiry, so that a denied
\* identifier is admitted again once a window length has passed.
C35_EveryCounterExpires ==
    \A key \in DOMAIN counters :
        /\ counters[key].expires
        /\ counters[key].ttl > 0
        /\ \E policy \in Policies : counters[key].ttl <= policy.window

(***************************************************************************)
(* Contents of the gateway cache under concurrent gets                     *)
(***************************************************************************)

\* the request of a gateway call
RequestOf(cr) == [path |-> cr.path, params |-> cr.params]

\* C36: every entry of the gateway cache was stored by a get whose final
\* upstream response had a success status, holds the body of that response,
\* and lies under the key of that get's path and params and of no other
\* request; a step that stores nothing leaves the payloads as they were.
C36_CacheHoldsOwnSuccessPayload ==
    [][\A k \in DOMAIN cache' :
          \/ k \in DOMAIN cache /\ cache'[k].value = cache[k].value
          \/ \E c \in Callers :
                /\ WriteStep(c)
                /\ k = CacheKey(gw[c].path, gw[c].params)
                /\ \A req \in Requests :
                      CacheKey(req.path, req.params) = k => req = RequestOf(gw[c])
                /\ LET final == FinalResponse(gw[c])
                   IN  /\ final.kind = "response" /\ ~IsError(final.status_code)
                       /\ cache'[k].value = final.text
                       /\ Loads(cache'[k].value) \in Payloads]_vars

\* both callers missed the same key, both called upstream, and the entry holds
\* the payload of the one that stored last, the other having got another payload
C36_Witness ==
    \E c, d \in Callers :
        /\ c # d /\ gw[c].cache_key = gw[d].cache_key
        /\ gw[c].pc = "done" /\ gw[c].cache_writes = 1
        /\ gw[d].pc = "done" /\ gw[d].cache_writes = 1
        /\ gw[c].outcome.data # gw[d].outcome.data
        /\ gw[c].cache_key \in DOMAIN cache
        /\ Loads(cache[gw[c].cache_key].value) = gw[c].outcome.data

(***************************************************************************)
(* The stored deck analyses of predict_player_decks                        *)
(***************************************************************************)

\* this step is one call of predict_player_decks for a valid game mode
PredictStep ==
    /\ player.pc = "idle" /\ player'.pc = "done"
    /\ player'.fn = "predict_player_decks" /\ player'.mode \in GameModes

\* the analysis of the battles of game_mode in the log upstream answered with
FreshTop3(response, game_mode) ==
    TopDecks(CountDecks(FilterByMode(BattlesOf(response), game_mode)))

\* C37: a request whose (player, mode) has a stored analysis younger than 10
\* minutes is answered with it, cached = true, no upstream call and no write;
\* any other request calls upstream, and if it succeeds it answers with the
\* analysis of the fetched log, cached = false, and stores it at age 0 under
\* (player, mode); an analysis served from the store was stored for the game
\* mode requested.
C37_FreshServedStaleRecomputed ==
    [][PredictStep =>
        LET stored == {key \in DOMAIN battle_logs :
                          /\ battle_logs[key].deck_analysis.game_mode = player'.mode
                          /\ key = BattleLogKey(player'.tag, player'.mode)}
            young == {key \in stored : battle_logs[key].age < CacheMinutes}
        IN  /\ young # {} =>
                 /\ \E key \in young :
                       player'.result = [ok |-> TRUE, player_tag |-> player'.tag,
                                         top3 |-> battle_logs[key].deck_analysis.top3,
                                         cached |-> TRUE]
                 /\ player'.calls = 0
                 /\ battle_logs' = battle_logs
            /\ young = {} =>
                 /\ player'.calls = 1
                 /\ player'.result.ok =>
                       /\ ~player'.result.cached
                       /\ player'.result.top3 = FreshTop3(player'.data, player'.mode)
                       /\ LET key == BattleLogKey(player'.tag, player'.mode)
                          IN  /\ DOMAIN battle_logs' = DOMAIN battle_logs \cup {key}
                              /\ battle_logs'[key].age = 0
                              /\ battle_logs'[key].deck_analysis =
                                    [top3 |-> player'.result.top3,
                                     game_mode |-> player'.mode]
                              /\ \A other \in DOMAIN battle_logs \ {key} :
                                    battle_logs'[other] = battle_logs[other]
                 /\ ~player'.result.ok => battle_logs' = battle_logs]_vars

\* an analysis of the ranked battles is served from the store at 5 minutes,
\* while the store also holds a different analysis of the same player's ladder
\* battles
C37_Witness ==
    /\ player.pc = "done" /\ player.fn = "predict_player_decks"
    /\ player.mode = "ranked" /\ player.result.ok /\ player.result.cached
    /\ player.calls = 0
    /\ battle_logs[BattleLogKey("#P1", "ranked")].age = MinuteStep
    /\ BattleLogKey("#P1", "ladder") \in DOMAIN battle_logs
    /\ battle_logs[BattleLogKey("#P1", "ladder")].deck_analysis.top3 # player.result.top3

\* an analysis older than 10 minutes was recomputed and overwritten with a
\* different one
StaleAnalysisOverwritten ==
    /\ player.pc = "done" /\ player.fn = "predict_player_decks"
    /\ player.result.ok /\ ~player.result.cached
    /\ \E key \in DOMAIN battle_logs : battle_logs[key].age = MaxAge

(***************************************************************************)
(* What a create_clan_snapshot that returned True leaves in the store      *)
(***************************************************************************)

\* C38: once a call returned True the table holds at least one row of its
\* clan dated with the date of its already-exists check, so that a later check
\* for the clan on that date finds a snapshot; and every row the call wrote
\* carries that date.
C38_TrueLeavesRowToday ==
    \A c \in Calls :
        (call[c].pc = "done" /\ call[c].result = "true") =>
            /\ RowsOfDay(call[c].clan_tag, call[c].today) # {}
            /\ ExistingSnapshot(snapshots, call[c].clan_tag, call[c].today)
            /\ LatestSnapshots(snapshots, call[c].clan_tag, call[c].today) # {}
            /\ \A k \in RowsBy(c) : snapshots[k].snapshot_date = call[c].today

\* the rows a call wrote carry the date of its already-exists check
RowsCarryDateOfCheck ==
    \A c \in Calls : \A k \in RowsBy(c) : snapshots[k].snapshot_date = call[c].today

(***************************************************************************)
(* Properties of get_clan_stats                                            *)
(***************************************************************************)

\* a finished request that found no stored response
StatsMissDone == stats.pc = "done" /\ stats.time_period \in ValidPeriods /\ stats.calls > 0

\* every roster entry has a tag and a name
RosterWellFormed ==
    \A m \in 1..Len(stats.members) : {"tag", "name"} \subseteq DOMAIN stats.members[m]

\* all the statistics of a member entry are zero and last_seen is absent
AllZero(entry) ==
    /\ entry.battles = 0 /\ entry.wins = 0 /\ entry.losses = 0
    /\ entry.war_attacks = 0 /\ entry.total_war_attacks = 0
    /\ entry.ranked_battles = 0 /\ entry.ranked_wins = 0 /\ entry.ranked_losses = 0
    /\ entry.ranked_avg_crowns = 0
    /\ entry.ladder_battles = 0 /\ entry.ladder_wins = 0 /\ entry.ladder_losses = 0
    /\ entry.ladder_avg_crowns = 0
    /\ entry.last_seen = NoneValue

\* C32: a request whose clan info and roster fetches returned answers with one
\* entry per roster member, in roster order, whatever member fetches failed;
\* the entry of a member one of whose fetches failed has zero statistics; a
\* failed clan info or roster fetch ends the request with the status upstream
\* raised; and a request that ends with an error stores no clan_stats entry.
C32_MemberFailuresTolerated ==
    StatsMissDone =>
        LET key == StatsKey(stats.clan_tag, stats.time_period)
            entries == stats.result.data.members
        IN  /\ (stats.calls > 2 /\ RosterWellFormed) => stats.result.ok
            /\ stats.result.ok =>
                  /\ Len(entries) = Len(stats.members)
                  /\ \A m \in 1..Len(entries) :
                        /\ entries[m].tag = stats.members[m].tag
                        /\ entries[m].name = stats.members[m].name
                        /\ m \in stats.failed => AllZero(entries[m])
                  /\ stats.cache_writes = 1
                  /\ Loads(RedisGet(cache, key)) = stats.result.data
            /\ stats.calls <= 2 =>
                  /\ ~stats.result.ok
                  /\ Len(stats.raised) = 1
                  /\ stats.result.status_code = stats.raised[1]
            /\ ~stats.result.ok =>
                  /\ stats.cache_writes = 0
                  /\ key \notin DOMAIN cache

\* the fetches of the first of two members failed, the second member has
\* battles, and the response was stored
C32_Witness ==
    /\ StatsMissDone /\ stats.result.ok
    /\ Len(stats.members) = 2 /\ stats.failed = {1}
    /\ stats.result.data.members[2].battles > 0
    /\ StatsKey(stats.clan_tag, stats.time_period) \in DOMAIN cache

\* a roster fetch failed and nothing was stored
RosterFetchAborted ==
    /\ StatsMissDone /\ stats.calls = 2 /\ ~stats.result.ok
    /\ stats.result.status_code = 503 /\ DOMAIN cache = {}

(***************************************************************************)
(* The snapshot table under every operation                                *)
(***************************************************************************)

\* C31: committed snapshot rows are never modified or deleted: every step
\* leaves the table as it was or appends rows to it; a get_historical_stats
\* query, a get_clan_stats step and a step of start_tracking_clan before its
\* snapshot leave the table unchanged.
C31_SnapshotsAppendOnly ==
    [][/\ Len(snapshots') >= Len(snapshots)
       /\ SubSeq(snapshots', 1, Len(snapshots)) = snapshots
       /\ hist' # hist => snapshots' = snapshots
       /\ stats' # stats => snapshots' = snapshots
       /\ tracked_clans' # tracked_clans => snapshots' = snapshots
       /\ \A c \in Calls : (call'[c] # call[c] /\ call'[c].result # "true") =>
             snapshots' = snapshots]_vars

\* rows of two days, written by a create_clan_snapshot call and by a tracking
\* request, after a query that returned entries and a clan statistics request
C31_Witness ==
    /\ \E j, k \in 1..Len(snapshots) : snapshots[j].snapshot_date < snapshots[k].snapshot_date
    /\ \E c \in Calls : call[c].result = "true" /\ RowsBy(c) # {}
    /\ track[1].pc = "done" /\ track[1].result.ok /\ track[1].result.snapshot_created
    /\ hist.pc = "done" /\ hist.result # NoneValue
    /\ stats.pc = "done" /\ stats.result.ok

====
